---- MODULE Spec2Model ----
(***************************************************************************)
(* A model of the real-time collaboration backend of collab-space-server:  *)
(* the document WebSocket consumer (apps/collaboration/consumers.py), the  *)
(* operation processor, presence service and block locks                   *)
(* (apps/collaboration/services.py), the idempotency service               *)
(* (apps/core/utils.py) and the maintenance tasks                          *)
(* (apps/collaboration/tasks.py).                                          *)
(*                                                                         *)
(* Durable rows (documents, operation log, sessions, users) are sets and   *)
(* functions; Redis keys carry their remaining time to live in seconds and *)
(* Tick lets Quantum seconds pass; the channel layer is one queue of       *)
(* pending group events per channel; what a consumer has sent to its       *)
(* client is recorded in outbox.                                           *)
(***************************************************************************)
EXTENDS Integers, Sequences, FiniteSets, TLC

\* ------------------------------------------------------------------ bounds
MaxMsgs == 3          \* direct calls of the sequencer per behaviour
MaxFrames == 2        \* client frames received per behaviour
MaxLockFrames == 3    \* lock and unlock frames received per behaviour
MaxFaultyFrames == 3  \* frames, faulty or valid, received per behaviour
MaxDedupFrames == 3   \* frames with a message id received per behaviour
MaxOnceCalls == 4     \* calls of process_once per behaviour
MaxSyncOps == 2       \* operations logged per document before a sync
MaxClock == 9         \* minutes the clock runs for
MaxCreated == 3       \* latest minute a stored session was last saved at
MaxOverThreshold == 10 \* how far from the compaction threshold the preloaded logs go
Quantum == 10         \* seconds that pass in one clock step

\* ------------------------------------------------------- program constants
PRESENCE_TTL == 60            \* PresenceService.PRESENCE_TTL
LOCK_TIMEOUT == 30            \* acquire_block_lock(timeout=30)
RECENT_OPS == 100             \* get_document_state: order_by('-version')[:100]
COMPRESS_THRESHOLD == 1000    \* compress_operation_logs: op_count > 1000
COMPRESS_KEEP == 500          \* compress_operation_logs: [500:]
INITIAL_VERSION == 1          \* Document.current_version default

\* ------------------------------------------------------------- value sets
DocIds == {"d1", "d2"}
Users == {"u1", "u2"}
Anonymous == "anonymous"
Channels == {"c1", "c2", "c3"}
Blocks == {"b1"}
NoId == "no_id"                       \* a frame without an "id"
MsgIds == {"m1", "m2"}
None == "none"
Colors == {"#ef4444"}                 \* one of create_session's eight colors
DEFAULT_COLOR == "#6366f1"
Positions == {5, 7}
AwarenessStates == {"sel1", "sel2"}

\* has_document_permission(user, document, 'can_view'): the role tables are
\* owned by the workspace app; here every user may view d1 and only u2 d2.
ViewGrants == {<<"u1", "d1">>, <<"u2", "d1">>, <<"u2", "d2">>}

\* has_document_permission(user, document, 'can_edit'): u1 is an editor of d1,
\* u2 a viewer of d1 and an editor of d2
EditGrants == {<<"u1", "d1">>, <<"u2", "d2">>}

\* the (token user, document) a client opens each connection with: c1 and c3
\* are two sessions of u1, c2 is a session of u2, all on d1
Scopes(c) ==
    CASE c = "c2" -> {<<"u2", "d1">>}
      [] OTHER -> {<<"u1", "d1">>}

\* operation payloads a client can put into an "operation" frame
NoOperation == [present |-> FALSE, has_type |-> FALSE, payload |-> "absent"]
OpValid == [present |-> TRUE, has_type |-> TRUE, payload |-> "hex"]
OpNoType == [present |-> TRUE, has_type |-> FALSE, payload |-> "hex"]
OpNoPayload == [present |-> TRUE, has_type |-> TRUE, payload |-> "absent"]
OpEmptyPayload == [present |-> TRUE, has_type |-> TRUE, payload |-> "empty"]
OpBadHex == [present |-> TRUE, has_type |-> TRUE, payload |-> "badhex"]
OperationDatas == {NoOperation, OpValid, OpNoType, OpNoPayload, OpEmptyPayload, OpBadHex}

\* the operation payloads the gateway specifications draw from
GatewayOps == {NoOperation, OpValid, OpBadHex}

VARIABLES
    documents,      \* Document rows: [DocIds -> [exists, is_deleted, current_version, last_edited_by]]
    opLog,          \* OperationLog rows
    activities,     \* UserActivity rows written by log_activity
    deletedUsers,   \* users whose row is soft-deleted
    sessionRows,    \* CollaborationSession rows, one per accepted channel
    rowLock,        \* SELECT FOR UPDATE: which channel's transaction holds the document row
    txn,            \* the process_operation call a consumer is awaiting
    idem,           \* idempotency markers set in the cache
    presenceSet,    \* Redis set presence:{doc}:users with its ttl
    presenceHash,   \* Redis hash presence:{doc}:user:{user} with its ttl
    awarenessKey,   \* Redis string awareness:{doc}:{user} with its ttl
    blockLock,      \* Redis string block_lock:{doc}:{block} with its ttl
    groups,         \* channel layer: members of document_{doc}
    inbox,          \* channel layer: group events not yet handled by a consumer
    conn,           \* consumer state per channel
    outbox,         \* frames sent to (and close codes of) each client
    nmsg,           \* client frames received or direct calls made so far
    call_count,     \* how often the function handed to process_once ran, per message id
    returned,       \* the outcomes of the process_once calls, in call order
    synced,         \* what the last apply_state_vector call was asked and returned
    compacted,      \* how the last compress_operation_logs run ended
    now,            \* timezone.now(), in minutes
    expired_count,  \* what the last cleanup_expired_sessions run returned
    cache,          \* Django cache: [CacheKeys -> entry]
    reader          \* a caller of get_document_with_blocks: where it is, what it got

onceVars == <<call_count, returned>>
taskVars == <<now, expired_count>>
readVars == <<cache, reader>>

vars == <<documents, opLog, activities, deletedUsers, sessionRows, rowLock, txn,
          idem, presenceSet, presenceHash, awarenessKey, blockLock,
          groups, inbox, conn, outbox, nmsg, onceVars, synced, compacted, taskVars, readVars>>

dbVars == <<documents, opLog, activities, deletedUsers, sessionRows, rowLock, txn>>
redisVars == <<presenceSet, presenceHash, awarenessKey, blockLock>>
layerVars == <<groups, inbox>>

\* ------------------------------------------------------------------- Init
NoResult == [success |-> FALSE, error |-> None, version |-> 0, operation_id |-> <<>>,
             persisted |-> FALSE]
\* a client's state vector: {} or {'version': v}
EmptyVector == [has_version |-> FALSE, version |-> 0]
VersionVector(v) == [has_version |-> TRUE, version |-> v]
\* no run of the compaction task has deleted anything or failed
NothingCompacted == [returned |-> 0, raised |-> FALSE]
NoSync == [document_id |-> None, client_state_vector |-> EmptyVector, missing |-> <<>>]
NoTxn == [stage |-> "none", document_id |-> None, user_id |-> None,
          operation_data |-> NoOperation, message_id |-> NoId, current_version |-> 0,
          result |-> NoResult]
SESSION_EXPIRY == 5                   \* timedelta(minutes=5)
EPOCH == 0                            \* the instant the clock starts at, in minutes
NoConn == [status |-> "new", user |-> None, document_id |-> None, user_color |-> None]
NoSession == [exists |-> FALSE, document_id |-> None, user_id |-> None,
              is_active |-> FALSE, color |-> None, last_activity |-> EPOCH]
NoField == <<>>                       \* a hash field or value that is not there
NoHash == [exists |-> FALSE, ttl |-> 0, display_name |-> None, color |-> None,
           cursor |-> NoField, last_activity |-> EPOCH]
NoAwareness == [exists |-> FALSE, ttl |-> 0, state |-> NoField]
NoLock == [owner |-> None, ttl |-> 0]
NoSet == [members |-> {}, ttl |-> 0]
\* f'doc_state:{document_id}'
doc_state_key(d) == <<"doc_state", d, "">>
\* CacheManager.get_document_cache_key(document_id, suffix)
get_document_cache_key(d, suffix) == <<"document", d, suffix>>
CacheKeys ==
    {doc_state_key(d) : d \in DocIds} \cup
    {get_document_cache_key(d, "with_blocks") : d \in DocIds}
NoView == [found |-> FALSE, current_version |-> 0]
NoEntry == [exists |-> FALSE, value |-> NoView]
NoRead == [stage |-> "idle", document_id |-> None, document |-> NoView,
           hit |-> FALSE, returned |-> NoView]

NewDocument ==
    [exists |-> TRUE, is_deleted |-> FALSE, current_version |-> INITIAL_VERSION,
     last_edited_by |-> None]

\* the stored documents and session rows at instant t: no key, no call in flight
InitAt(docs, log, rows, t) ==
    /\ documents = docs
    /\ opLog = log
    /\ activities = {}
    /\ deletedUsers = {}
    /\ sessionRows = rows
    /\ rowLock = [d \in DocIds |-> None]
    /\ txn = [c \in Channels |-> NoTxn]
    /\ idem = {}
    /\ presenceSet = [d \in DocIds |-> NoSet]
    /\ presenceHash = [k \in DocIds \X Users |-> NoHash]
    /\ awarenessKey = [k \in DocIds \X Users |-> NoAwareness]
    /\ blockLock = [k \in DocIds \X Blocks |-> NoLock]
    /\ groups = [d \in DocIds |-> {}]
    /\ inbox = [c \in Channels |-> <<>>]
    /\ conn = [c \in Channels |-> NoConn]
    /\ outbox = [c \in Channels |-> <<>>]
    /\ nmsg = 0
    /\ call_count = [m \in MsgIds |-> 0]
    /\ returned = <<>>
    /\ synced = NoSync
    /\ compacted = NothingCompacted
    /\ now = t
    /\ expired_count = 0
    /\ cache = [k \in CacheKeys |-> NoEntry]
    /\ reader = NoRead

\* nothing but the stored documents: no session, no key, no call in flight
InitWith(docs, log) == InitAt(docs, log, [c \in Channels |-> NoSession], EPOCH)

Init == InitWith([d \in DocIds |-> NewDocument], {})


\* ------------------------------------------------------------ channel layer
\* channel_layer.group_send: the event is queued for every member of the group
group_send(members, event) ==
    [c \in Channels |-> IF c \in members THEN Append(inbox[c], event) ELSE inbox[c]]

\* a frame put in front of the frames already sent
send_json_first(c, frame) == [outbox EXCEPT ![c] = <<frame>> \o @]
\* send_json / send_error: one frame to the consumer's own client
send_json(c, frame) == [outbox EXCEPT ![c] = Append(@, frame)]
\* an error frame for every member of the sender's group
error_to_group(c, message) ==
    [x \in DOMAIN outbox |->
        IF x = c \/ x \in groups[conn[c].document_id]
          THEN Append(outbox[x], [type |-> "error", error |-> [message |-> message]])
          ELSE outbox[x]]

send_error(c, message) ==
    send_json(c, [type |-> "error", error |-> [message |-> message]])

\* ------------------------------------------------------ Operation Sequencer
\* a validation that looks for the type only
validate_type_only(op) == op.has_type

validate_operation(op) == op.has_type /\ op.payload # "absent"

\* sha256 of "{document_id}:{user_id}:{message_id}:{version}": one id per tuple
generate_operation_id(d, u, m, v) == <<d, u, m, v>>

\* bytes.fromhex of a well-formed hex string
fromhex(payload_hex) == <<"bytes", payload_hex>>

Failure(error, persisted, v, oid) ==
    [success |-> FALSE, error |-> error, version |-> v, operation_id |-> oid,
     persisted |-> persisted, payload |-> None]

\* The body of process_operation once the document row is locked and read
\* (cur is the current_version it read).  persisted says whether the rows it
\* wrote are committed when transaction.atomic exits: an exception caught by
\* the function's own except clause leaves the block normally, so what was
\* written before it is committed, unless the exception was a database error,
\* which marks the transaction for rollback.
process_result(d, u, op, m, cur, dbfail) ==
    LET server_version == cur + 1
        operation_id == generate_operation_id(d, u, m, server_version)
    IN  IF ~validate_operation(op)
          THEN Failure("Invalid operation format", FALSE, 0, <<>>)
        ELSE IF \E r \in opLog : r.operation_id = operation_id
          THEN Failure("Duplicate operation", FALSE, 0, <<>>)
        ELSE IF op.payload = "empty"
          THEN Failure("Missing payload", FALSE, 0, <<>>)
        ELSE IF op.payload = "badhex"        \* bytes.fromhex raises ValueError
          THEN Failure("Internal server error", FALSE, 0, <<>>)
        ELSE IF dbfail                       \* DatabaseError in create or save
          THEN Failure("Internal server error", FALSE, 0, <<>>)
        ELSE IF u \in deletedUsers           \* User.objects.get raises DoesNotExist
          THEN [Failure("Internal server error", TRUE, server_version, operation_id)
                  EXCEPT !.payload = fromhex(op.payload)]
        ELSE [success |-> TRUE, error |-> None, version |-> server_version,
              operation_id |-> operation_id, persisted |-> TRUE,
              payload |-> fromhex(op.payload)]

\* SELECT ... FOR UPDATE grants the document row to one transaction at a time
\* a sequencer that reads the row without select_for_update
NoRowLock(d) == TRUE

RowLockFree(d) == rowLock[d] = None

FoundDocument(d) == documents[d].exists /\ ~documents[d].is_deleted

OperationRow(d, u, r) ==
    [document_id |-> d, user_id |-> u, operation_id |-> r.operation_id,
     version |-> r.version, payload |-> r.payload]


\* ----------------------------------------------------------- CRDTService
RECURSIVE SortByVersion(_)
SortByVersion(rows) ==
    IF rows = {} THEN <<>>
    ELSE LET first == CHOOSE r \in rows : \A q \in rows : r.version <= q.version
         IN  <<first>> \o SortByVersion(rows \ {first})

\* the rows of d that order_by('-version')[:n] keeps
MostRecent(log, d, n) ==
    LET mine == {r \in log : r.document_id = d}
    IN  {r \in mine : Cardinality({q \in mine : q.version > r.version}) < n}

get_document_state(d) ==
    IF FoundDocument(d)
      THEN [error |-> None, version |-> documents[d].current_version,
            updates |-> SortByVersion(MostRecent(opLog, d, RECENT_OPS))]
      ELSE [error |-> "Document not found", version |-> 0, updates |-> <<>>]

\* client_state_vector.get('version', 0)
vector_version(client_state_vector) ==
    IF client_state_vector.has_version THEN client_state_vector.version ELSE 0

\* OperationLog.objects.filter(document_id=..., version__gt=client_version)
missing_rows(d, client_state_vector) ==
    {r \in opLog : r.document_id = d /\ r.version > vector_version(client_state_vector)}

\* a filter version__gte in place of version__gt
state_vector_inclusive(d, client_state_vector) ==
    LET missing_ops == SortByVersion({r \in opLog :
                          r.document_id = d /\ r.version >= vector_version(client_state_vector)})
    IN  [i \in DOMAIN missing_ops |-> missing_ops[i].payload]

\* apply_state_vector: the payloads of the document's operations after the
\* client's version, in ascending order of version
apply_state_vector(d, client_state_vector) ==
    LET missing_ops == SortByVersion(missing_rows(d, client_state_vector))
    IN  [i \in DOMAIN missing_ops |-> missing_ops[i].payload]

\* --------------------------------------------------------- PresenceService
json_dumps(v) == <<"json", v>>
json_loads(s) == s[2]
EmptyDict == [position |-> -1]
CursorData(p) == [position |-> p]
DisplayName(u) == IF u = "u1" THEN "Ann" ELSE "Bob"     \* user.display_name

\* get_active_users over a given content of the two presence keys
active_users(pset, phash, d) ==
    { [user_id |-> u,
       display_name |-> IF phash[<<d, u>>].display_name = None
                          THEN "" ELSE phash[<<d, u>>].display_name,
       color |-> IF phash[<<d, u>>].color = None THEN DEFAULT_COLOR ELSE phash[<<d, u>>].color,
       cursor |-> IF phash[<<d, u>>].cursor = NoField THEN EmptyDict
                  ELSE json_loads(phash[<<d, u>>].cursor)]
      : u \in {m \in pset[d].members : phash[<<d, m>>].exists} }

get_active_users(d) == active_users(presenceSet, presenceHash, d)

\* sadd + expire on the set key
add_to_set(pset, d, u) ==
    [pset EXCEPT ![d] = [members |-> @.members \cup {u}, ttl |-> PRESENCE_TTL]]

\* hmset of the five fields + expire on the user key
add_to_hash(phash, d, u, color) ==
    [phash EXCEPT ![<<d, u>>] =
        [exists |-> TRUE, ttl |-> PRESENCE_TTL, display_name |-> DisplayName(u),
         color |-> color, cursor |-> json_dumps(EmptyDict), last_activity |-> now]]

\* srem (a set left empty is deleted by Redis) and delete of the user key
remove_from_set(pset, d, u) ==
    [pset EXCEPT ![d] = IF @.members \ {u} = {} THEN NoSet
                        ELSE [@ EXCEPT !.members = @ \ {u}]]
\* a leave that forgets to delete the user key
keep_hash(phash, d, u) == phash

remove_from_hash(phash, d, u) == [phash EXCEPT ![<<d, u>>] = NoHash]

\* hset cursor, hset last_activity, expire: creates the hash if it is gone
update_cursor(phash, d, u, cursor_data) ==
    [phash EXCEPT ![<<d, u>>] =
        [@ EXCEPT !.exists = TRUE, !.ttl = PRESENCE_TTL, !.cursor = json_dumps(cursor_data),
                  !.last_activity = now]]

\* hset last_activity, expire
update_activity(phash, d, u) ==
    [phash EXCEPT ![<<d, u>>] =
        [@ EXCEPT !.exists = TRUE, !.ttl = PRESENCE_TTL, !.last_activity = now]]

\* set awareness:{doc}:{user} ex=PRESENCE_TTL
update_awareness(akey, d, u, state) ==
    [akey EXCEPT ![<<d, u>>] = [exists |-> TRUE, ttl |-> PRESENCE_TTL, state |-> json_dumps(state)]]

\* ---------------------------------------------------- CollaborationService
\* a SET without NX: the caller always becomes the owner
set_always(locks, d, b, u) == TRUE

\* SET key user NX EX timeout: whether the caller became the owner
lock_acquired(locks, d, b, u) == locks[<<d, b>>].owner = None

acquire_block_lock(locks, d, b, u) ==
    IF lock_acquired(locks, d, b, u)
      THEN [locks EXCEPT ![<<d, b>>] = [owner |-> u, ttl |-> LOCK_TIMEOUT]]
      ELSE locks

\* a plain DEL of the key, whoever holds it
delete_lock(locks, d, b, u) == [locks EXCEPT ![<<d, b>>] = NoLock]

\* the Lua script: delete the key only if its value is the caller
release_block_lock(locks, d, b, u) ==
    IF locks[<<d, b>>].owner = u
      THEN [locks EXCEPT ![<<d, b>>] = NoLock]
      ELSE locks

get_block_lock_owner(d, b) == blockLock[<<d, b>>].owner

\* end_session: every session row of (document, user) is marked inactive
end_session_rows(rows, d, u) ==
    [c \in Channels |->
        IF rows[c].exists /\ rows[c].document_id = d /\ rows[c].user_id = u
          THEN [rows[c] EXCEPT !.is_active = FALSE] ELSE rows[c]]

has_document_permission(u, d) == <<u, d>> \in ViewGrants


\* ------------------------------------------------------- DocumentConsumer
Open(c) == conn[c].status = "open"
\* a consumer that would take group events while its connect() is running
Attached(c) == conn[c].status \in {"joining", "announcing", "open"} /\ txn[c].stage = "none"

\* a consumer handles one event at a time, and none before connect() returned
Idle(c) == Open(c) /\ txn[c].stage = "none"
UserOf(c) == conn[c].user
DocOf(c) == conn[c].document_id

\* the user the JWT middleware puts into the scope: a soft-deleted user's
\* token resolves to AnonymousUser
scope_user(u) == IF u \in deletedUsers THEN Anonymous ELSE u

check_document_access(u, d) == FoundDocument(d) /\ has_document_permission(u, d)

Event(type, c, excluded, body) ==
    [type |-> type, user_id |-> UserOf(c), exclude_channel |-> excluded,
     origin |-> c, body |-> body]

\* connect() sets self.user and self.document_group before it checks anything:
\* a connection closed by connect keeps them until its disconnect() runs
Rejected(u, d) == [NoConn EXCEPT !.status = "rejected", !.user = u, !.document_id = d]

connect(c, token_user, d, color) ==
    LET u == scope_user(token_user) IN
    /\ conn[c].status = "new"
    /\ UNCHANGED <<nmsg, onceVars, synced, compacted, taskVars, readVars>>
    /\ IF u = Anonymous \/ ~check_document_access(u, d)
         THEN /\ conn' = [conn EXCEPT ![c] = Rejected(u, d)]
              /\ outbox' = send_json(c, [type |-> "close",
                                         code |-> IF u = Anonymous THEN 4001 ELSE 4003])
              /\ UNCHANGED <<dbVars, redisVars, layerVars, idem>>
         ELSE LET pset == add_to_set(presenceSet, d, u)
                  phash == add_to_hash(presenceHash, d, u, color)
                  members == groups[d] \cup {c}
              IN  /\ conn' = [conn EXCEPT ![c] =
                                [status |-> "open", user |-> u, document_id |-> d,
                                 user_color |-> color]]
                  /\ groups' = [groups EXCEPT ![d] = members]
                  /\ sessionRows' = [sessionRows EXCEPT ![c] =
                                [exists |-> TRUE, document_id |-> d, user_id |-> u,
                                 is_active |-> TRUE, color |-> color,
                                 last_activity |-> now]]
                  /\ presenceSet' = pset
                  /\ presenceHash' = phash
                  /\ outbox' = send_json(c,
                        [type |-> "connection.established", session_id |-> c,
                         user_color |-> color, document_state |-> get_document_state(d),
                         active_users |-> active_users(pset, phash, d)])
                  /\ inbox' = group_send(members,
                        [type |-> "user.joined", user_id |-> u, exclude_channel |-> None,
                         origin |-> c, body |-> [color |-> color, session_id |-> c]])
                  /\ UNCHANGED <<documents, opLog, activities, deletedUsers, rowLock, txn,
                                 idem, awarenessKey, blockLock>>

\* connect() in the steps between which other consumers run.
\* First the checks, accept() and group_add
connect_accept(c, token_user, d) ==
    LET u == scope_user(token_user) IN
    /\ conn[c].status = "new"
    /\ IF u = Anonymous \/ ~check_document_access(u, d)
         THEN /\ conn' = [conn EXCEPT ![c] = Rejected(u, d)]
              /\ outbox' = send_json(c, [type |-> "close",
                                         code |-> IF u = Anonymous THEN 4001 ELSE 4003])
              /\ UNCHANGED groups
         ELSE /\ conn' = [conn EXCEPT ![c] =
                            [status |-> "joining", user |-> u, document_id |-> d,
                             user_color |-> None]]
              /\ groups' = [groups EXCEPT ![d] = @ \cup {c}]
              /\ UNCHANGED outbox
    /\ UNCHANGED <<dbVars, redisVars, inbox, idem, nmsg, onceVars, synced, compacted, taskVars, readVars>>

\* then _create_session and the initial state sent to the client
connect_session(c, color) ==
    LET d == DocOf(c)
        u == UserOf(c)
        pset == add_to_set(presenceSet, d, u)
        phash == add_to_hash(presenceHash, d, u, color)
    IN  /\ conn[c].status = "joining"
        /\ conn' = [conn EXCEPT ![c].status = "announcing", ![c].user_color = color]
        /\ sessionRows' = [sessionRows EXCEPT ![c] =
                             [exists |-> TRUE, document_id |-> d, user_id |-> u,
                              is_active |-> TRUE, color |-> color,
                                 last_activity |-> now]]
        /\ presenceSet' = pset
        /\ presenceHash' = phash
        /\ outbox' = send_json(c,
              [type |-> "connection.established", session_id |-> c,
               user_color |-> color, document_state |-> get_document_state(d),
               active_users |-> active_users(pset, phash, d)])
        /\ UNCHANGED <<documents, opLog, activities, deletedUsers, rowLock, txn,
                       idem, awarenessKey, blockLock, layerVars, nmsg, onceVars, synced, compacted, taskVars, readVars>>

\* then the user.joined event for the group
connect_announce(c) ==
    /\ conn[c].status = "announcing"
    /\ conn' = [conn EXCEPT ![c].status = "open"]
    /\ inbox' = group_send(groups[DocOf(c)],
          [type |-> "user.joined", user_id |-> UserOf(c), exclude_channel |-> None,
           origin |-> c, body |-> [color |-> conn[c].user_color, session_id |-> c]])
    /\ UNCHANGED <<dbVars, redisVars, groups, idem, outbox, nmsg, onceVars, synced, compacted, taskVars, readVars>>

disconnect(c) ==
    LET d == DocOf(c)
        u == UserOf(c)
        members == groups[d] \ {c}
    IN  /\ conn[c].status \in {"open", "rejected"}
        /\ txn[c].stage = "none"
        /\ conn' = [conn EXCEPT ![c].status = "closed"]
        /\ groups' = [groups EXCEPT ![d] = members]
        /\ IF sessionRows[c].exists
             THEN /\ sessionRows' = end_session_rows(sessionRows, d, u)
                  /\ presenceSet' = remove_from_set(presenceSet, d, u)
                  /\ presenceHash' = remove_from_hash(presenceHash, d, u)
             ELSE UNCHANGED <<sessionRows, presenceSet, presenceHash>>
        /\ inbox' = group_send(members,
              [type |-> "user.left", user_id |-> u, exclude_channel |-> None,
               origin |-> c, body |-> [user_id |-> u]])
        /\ UNCHANGED <<documents, opLog, activities, deletedUsers, rowLock, txn,
                       idem, awarenessKey, blockLock, outbox, nmsg, onceVars, synced, compacted, taskVars, readVars>>

\* receive(): the idempotency check that precedes every handler
\* a check that finds no marker, whatever was marked
never_duplicate(m) == FALSE

is_duplicate(m) == m \in idem

\* a mark_processed that sets no marker
mark_nothing(m) == idem

mark_processed(m) == idem \cup {m}

\* a frame with an id already marked is dropped; otherwise the id is marked
Dropped(m) == m # NoId /\ is_duplicate(m)
Marked(m) == IF m # NoId THEN mark_processed(m) ELSE idem

\* process_once(message_id, process_func): the function may return a value
\* or raise; an exception leaves process_once before mark_processed
Callable(raises, value) == [raises |-> raises, value |-> value]
Funcs == {Callable(FALSE, "result"), Callable(FALSE, "sum"), Callable(TRUE, None)}
Outcome(m, raised, result, was_processed) ==
    [message_id |-> m, raised |-> raised, result |-> result, was_processed |-> was_processed]

process_once(m, process_func) ==
    /\ IF is_duplicate(m)
         THEN /\ returned' = Append(returned, Outcome(m, FALSE, None, FALSE))
              /\ UNCHANGED <<call_count, idem>>
         ELSE /\ call_count' = [call_count EXCEPT ![m] = @ + 1]
              /\ IF process_func.raises
                   THEN /\ returned' = Append(returned, Outcome(m, TRUE, None, FALSE))
                        /\ UNCHANGED idem
                   ELSE /\ idem' = mark_processed(m)
                        /\ returned' = Append(returned,
                                              Outcome(m, FALSE, process_func.value, TRUE))
    /\ UNCHANGED <<dbVars, redisVars, layerVars, conn, outbox, nmsg, synced, compacted, taskVars, readVars>>

receive(c, m) ==
    /\ Idle(c)
    /\ nmsg' = nmsg + 1
    /\ UNCHANGED <<onceVars, synced, compacted, taskVars, readVars>>

drop ==
    UNCHANGED <<dbVars, redisVars, layerVars, idem, conn, outbox>>

\* a call of process_operation(document_id, user_id, operation_data, _, message_id)
Call(d, u, op, m) ==
    [stage |-> "waiting", document_id |-> d, user_id |-> u, operation_data |-> op,
     message_id |-> m, current_version |-> 0, result |-> NoResult]

\* handle_operation up to its await of process_operation
handle_operation(c, m, op) ==
    /\ receive(c, m)
    /\ IF Dropped(m) THEN drop
       ELSE /\ idem' = Marked(m)
            /\ IF ~op.present
                 THEN /\ outbox' = send_error(c, "Missing operation data")
                      /\ UNCHANGED txn
                 ELSE /\ txn' = [txn EXCEPT ![c] = Call(DocOf(c), UserOf(c), op, m)]
                      /\ UNCHANGED outbox
            /\ UNCHANGED <<documents, opLog, activities, deletedUsers, sessionRows,
                           rowLock, redisVars, layerVars, conn>>

\* receive() of an operation frame up to the answer of its first await,
\* IdempotencyService.is_duplicate: a duplicate is dropped, any other frame
\* goes on knowing that it found no marker
receive_check(c, m, op) ==
    /\ receive(c, m)
    /\ IF Dropped(m) THEN drop
       ELSE /\ txn' = [txn EXCEPT ![c] = [Call(DocOf(c), UserOf(c), op, m)
                                            EXCEPT !.stage = "checked"]]
            /\ UNCHANGED <<documents, opLog, activities, deletedUsers, sessionRows,
                           rowLock, redisVars, layerVars, idem, conn, outbox>>

\* the rest of receive() up to handle_operation's await of process_operation:
\* mark_processed, then the handler
receive_mark(c) ==
    LET t == txn[c] IN
    /\ Open(c)
    /\ t.stage = "checked"
    /\ idem' = Marked(t.message_id)
    /\ IF ~t.operation_data.present
         THEN /\ outbox' = send_error(c, "Missing operation data")
              /\ txn' = [txn EXCEPT ![c] = NoTxn]
         ELSE /\ txn' = [txn EXCEPT ![c].stage = "waiting"]
              /\ UNCHANGED outbox
    /\ UNCHANGED <<documents, opLog, activities, deletedUsers, sessionRows, rowLock,
                   redisVars, layerVars, conn, nmsg, onceVars, synced, compacted,
                   taskVars, readVars>>

\* process_operation called directly, as the service's tests and tasks call it
submit(c, d, u, op, m) ==
    /\ conn[c].status = "new"
    /\ txn[c].stage \in {"none", "returned"}
    /\ nmsg < MaxMsgs
    /\ nmsg' = nmsg + 1
    /\ UNCHANGED <<onceVars, synced, compacted, taskVars, readVars>>
    /\ txn' = [txn EXCEPT ![c] = Call(d, u, op, m)]
    /\ UNCHANGED <<documents, opLog, activities, deletedUsers, sessionRows, rowLock,
                   redisVars, layerVars, idem, conn, outbox>>

\* process_operation reaches select_for_update().get(id, is_deleted=False):
\* DoesNotExist is returned as a failure, otherwise the call waits for the row
LockDocument(c) ==
    LET d == txn[c].document_id IN
    /\ txn[c].stage = "waiting"
    /\ IF ~FoundDocument(d)
         THEN /\ txn' = [txn EXCEPT ![c].stage = "returned",
                                    ![c].result = Failure("Document not found", FALSE, 0, <<>>)]
              /\ UNCHANGED rowLock
         ELSE /\ RowLockFree(d)
              /\ rowLock' = [rowLock EXCEPT ![d] = c]
              /\ txn' = [txn EXCEPT ![c].stage = "locked",
                                    ![c].current_version = documents[d].current_version]
    /\ UNCHANGED <<documents, opLog, activities, deletedUsers, sessionRows,
                   redisVars, layerVars, idem, conn, outbox, nmsg, onceVars, synced, compacted, taskVars, readVars>>

\* cache.delete(key) / cache.set(key, value, timeout)
cache_delete(entries, key) == [entries EXCEPT ![key] = NoEntry]
cache_set(entries, key, value) == [entries EXCEPT ![key] = [exists |-> TRUE, value |-> value]]

\* a call whose result is returned while its rows are rolled back
CommitRolledBack(c, dbfail) ==
    LET t == txn[c]
        d == t.document_id
        r == process_result(d, t.user_id, t.operation_data, t.message_id,
                            t.current_version, dbfail)
    IN  /\ t.stage = "locked"
        /\ txn' = [txn EXCEPT ![c].stage = "returned", ![c].result = r]
        /\ rowLock' = [rowLock EXCEPT ![d] = None]
        /\ UNCHANGED <<opLog, documents, activities, deletedUsers, sessionRows, redisVars,
                       layerVars, idem, conn, outbox, nmsg, onceVars, synced, compacted,
                       taskVars, readVars>>

\* process_operation from the locked row to the end of transaction.atomic
CommitOperation(c, dbfail) ==
    LET t == txn[c]
        d == t.document_id
        u == t.user_id
        r == process_result(d, u, t.operation_data, t.message_id, t.current_version, dbfail)
    IN  /\ t.stage = "locked"
        /\ txn' = [txn EXCEPT ![c].stage = "returned", ![c].result = r]
        /\ rowLock' = [rowLock EXCEPT ![d] = None]
        /\ IF r.persisted
             THEN /\ opLog' = opLog \cup {OperationRow(d, u, r)}
                  /\ documents' = [documents EXCEPT ![d].current_version = r.version,
                                                    ![d].last_edited_by = u]
             ELSE UNCHANGED <<opLog, documents>>
        /\ activities' = IF r.success
                           THEN activities \cup
                                  {[user_id |-> u, object_id |-> d, version |-> r.version]}
                           ELSE activities
        /\ cache' = IF r.persisted THEN cache_delete(cache, doc_state_key(d)) ELSE cache
        /\ UNCHANGED <<deletedUsers, sessionRows, redisVars, layerVars, idem, conn,
                       outbox, nmsg, onceVars, synced, compacted, taskVars, reader>>

\* the rest of handle_operation: the relay to the group and the ack to the
\* sender, or the error reply
finish_operation(c) ==
    LET t == txn[c]
        r == t.result
    IN  /\ Open(c)
        /\ t.stage = "returned"
        /\ txn' = [txn EXCEPT ![c] = NoTxn]
        /\ IF r.success
             THEN /\ inbox' = group_send(groups[DocOf(c)],
                        Event("operation.broadcast", c, c,
                              [operation_id |-> r.operation_id, version |-> r.version]))
                  /\ outbox' = send_json(c, [type |-> "operation.ack",
                                             id |-> t.message_id, version |-> r.version])
             ELSE /\ outbox' = send_error(c, r.error)
                  /\ UNCHANGED inbox
        /\ UNCHANGED <<documents, opLog, activities, deletedUsers, sessionRows, rowLock,
                       redisVars, groups, idem, conn, nmsg, onceVars, synced, compacted, taskVars, readVars>>

handle_cursor_update(c, m, p) ==
    /\ receive(c, m)
    /\ IF Dropped(m) THEN drop
       ELSE /\ idem' = Marked(m)
            /\ presenceHash' = update_cursor(presenceHash, DocOf(c), UserOf(c), CursorData(p))
            /\ inbox' = group_send(groups[DocOf(c)],
                  Event("cursor.update", c, c, [cursor |-> CursorData(p)]))
            /\ UNCHANGED <<dbVars, presenceSet, awarenessKey, blockLock, groups, conn, outbox>>

handle_awareness_update(c, m, state) ==
    /\ receive(c, m)
    /\ IF Dropped(m) THEN drop
       ELSE /\ idem' = Marked(m)
            /\ awarenessKey' = update_awareness(awarenessKey, DocOf(c), UserOf(c), state)
            /\ inbox' = group_send(groups[DocOf(c)],
                  Event("awareness.update", c, c, [state |-> state]))
            /\ UNCHANGED <<dbVars, presenceSet, presenceHash, blockLock, groups, conn, outbox>>

handle_block_lock(c, m, b) ==
    /\ receive(c, m)
    /\ IF Dropped(m) THEN drop
       ELSE /\ idem' = Marked(m)
            /\ IF b = None
                 THEN /\ outbox' = send_error(c, "Missing block_id")
                      /\ UNCHANGED <<blockLock, inbox>>
                 ELSE /\ blockLock' = acquire_block_lock(blockLock, DocOf(c), b, UserOf(c))
                      /\ IF lock_acquired(blockLock, DocOf(c), b, UserOf(c))
                           THEN /\ inbox' = group_send(groups[DocOf(c)],
                                      Event("block.locked", c, None, [block_id |-> b]))
                                /\ UNCHANGED outbox
                           ELSE /\ outbox' = send_error(c, "Block is already locked")
                                /\ UNCHANGED inbox
            /\ UNCHANGED <<dbVars, presenceSet, presenceHash, awarenessKey, groups, conn>>

handle_block_unlock(c, m, b) ==
    /\ receive(c, m)
    /\ IF Dropped(m) THEN drop
       ELSE /\ idem' = Marked(m)
            /\ IF b = None
                 THEN /\ outbox' = send_error(c, "Missing block_id")
                      /\ UNCHANGED <<blockLock, inbox>>
                 ELSE /\ blockLock' = release_block_lock(blockLock, DocOf(c), b, UserOf(c))
                      /\ inbox' = group_send(groups[DocOf(c)],
                            Event("block.unlocked", c, None, [block_id |-> b]))
                      /\ UNCHANGED outbox
            /\ UNCHANGED <<dbVars, presenceSet, presenceHash, awarenessKey, groups, conn>>

handle_typing(c, m, b, type) ==
    /\ receive(c, m)
    /\ IF Dropped(m) THEN drop
       ELSE /\ idem' = Marked(m)
            /\ inbox' = group_send(groups[DocOf(c)], Event(type, c, c, [block_id |-> b]))
            /\ UNCHANGED <<dbVars, redisVars, groups, conn, outbox>>

handle_typing_start(c, m, b) == handle_typing(c, m, b, "typing.started")
handle_typing_stop(c, m, b) == handle_typing(c, m, b, "typing.stopped")

handle_ping(c, m) ==
    /\ receive(c, m)
    /\ IF Dropped(m) THEN drop
       ELSE /\ idem' = Marked(m)
            /\ presenceHash' = update_activity(presenceHash, DocOf(c), UserOf(c))
            /\ outbox' = send_json(c, [type |-> "pong"])
            /\ UNCHANGED <<dbVars, presenceSet, awarenessKey, blockLock, layerVars, conn>>

\* _get_message_handler: the types that have a handler
MessageTypes ==
    {"operation", "cursor", "awareness", "block.lock", "block.unlock",
     "typing.start", "typing.stop", "ping"}
get_message_handler(type) == IF type \in MessageTypes THEN type ELSE None

\* every handler but handle_ping starts with payload.get(...)
ReadsPayload(type) == type \in MessageTypes \ {"ping"}

\* receive() of a text that json.loads rejects: nothing was read from it
receive_invalid_json(c) ==
    /\ receive(c, NoId)
    /\ outbox' = send_error(c, "Invalid JSON")
    /\ UNCHANGED <<dbVars, redisVars, layerVars, idem, conn>>

\* receive() of a frame whose type has no handler (a missing type is None)
receive_unknown(c, m, type) ==
    /\ get_message_handler(type) = None
    /\ receive(c, m)
    /\ IF Dropped(m) THEN drop
       ELSE /\ idem' = Marked(m)
            /\ outbox' = send_error(c, "Unknown message type")
            /\ UNCHANGED <<dbVars, redisVars, layerVars, conn>>

\* receive() of a frame whose 'data' is not an object: the handler's first
\* statement raises, receive() answers for it
handler_raises(c, m, type) ==
    /\ get_message_handler(type) # None
    /\ ReadsPayload(type)
    /\ receive(c, m)
    /\ IF Dropped(m) THEN drop
       ELSE /\ idem' = Marked(m)
            /\ outbox' = send_error(c, "Internal server error")
            /\ UNCHANGED <<dbVars, redisVars, layerVars, conn>>

\* a cancellation that would take the awaited call's committed work with it
cancel_undoes_commit(c) ==
    LET t == txn[c]
        d == t.document_id
    IN  /\ Open(c)
        /\ t.stage # "none"
        /\ conn' = [conn EXCEPT ![c].status = "cancelled"]
        /\ txn' = [txn EXCEPT ![c] = NoTxn]
        /\ rowLock' = [rowLock EXCEPT ![d] = IF @ = c THEN None ELSE @]
        /\ IF t.stage = "returned" /\ t.result.persisted
             THEN /\ opLog' = opLog \ {OperationRow(d, t.user_id, t.result)}
                  /\ documents' = [documents EXCEPT ![d].current_version = t.current_version]
             ELSE UNCHANGED <<opLog, documents>>
        /\ UNCHANGED <<activities, deletedUsers, sessionRows, redisVars, layerVars, idem,
                       outbox, nmsg, onceVars, synced, compacted, taskVars, readVars>>

\* the client went away and the server cancelled the consumer's task while
\* handle_operation awaited process_operation: CancelledError is raised at the
\* await (except Exception does not catch it), disconnect() is not run, and
\* the thread that executes process_operation goes on to the end
cancel(c) ==
    /\ Open(c)
    /\ txn[c].stage # "none"
    /\ conn' = [conn EXCEPT ![c].status = "cancelled"]
    /\ UNCHANGED <<dbVars, redisVars, layerVars, idem, outbox, nmsg, onceVars, synced, compacted, taskVars, readVars>>

\* the group message handlers: which events a consumer forwards to its client
FiltersSender(type) ==
    type \in {"operation.broadcast", "cursor.update", "awareness.update",
              "typing.started", "typing.stopped"}

\* a consumer that forwards every group event to its client
ForwardsAll(c, event) == TRUE

Forwards(c, event) == ~(FiltersSender(event.type) /\ event.exclude_channel = c)

FrameType(type) ==
    CASE type = "operation.broadcast" -> "operation"
      [] type = "awareness.update" -> "awareness"
      [] type = "typing.started" -> "typing.start"
      [] type = "typing.stopped" -> "typing.stop"
      [] OTHER -> type

\* origin is bookkeeping: the channel whose handler sent the event
Frame(event) ==
    [type |-> FrameType(event.type), user_id |-> event.user_id, data |-> event.body,
     origin |-> event.origin]

\* the consumer takes the next group event from the channel layer
Deliver(c) ==
    /\ Idle(c)
    /\ inbox[c] # <<>>
    /\ inbox' = [inbox EXCEPT ![c] = Tail(@)]
    /\ outbox' = IF Forwards(c, Head(inbox[c]))
                   THEN send_json(c, Frame(Head(inbox[c]))) ELSE outbox
    /\ UNCHANGED <<dbVars, redisVars, groups, idem, conn, nmsg, onceVars, synced, compacted, taskVars, readVars>>


\* ------------------------------------------------------------ environment
\* SoftDeleteModel.soft_delete on a user or a document (the REST API's doing)
soft_delete_user(u) ==
    /\ u \notin deletedUsers
    /\ deletedUsers' = deletedUsers \cup {u}
    /\ UNCHANGED <<documents, opLog, activities, sessionRows, rowLock, txn,
                   redisVars, layerVars, idem, conn, outbox, nmsg, onceVars, synced, compacted, taskVars, readVars>>

soft_delete_document(d) ==
    /\ ~documents[d].is_deleted
    /\ rowLock[d] = None
    /\ documents' = [documents EXCEPT ![d].is_deleted = TRUE]
    /\ UNCHANGED <<opLog, activities, deletedUsers, sessionRows, rowLock, txn,
                   redisVars, layerVars, idem, conn, outbox, nmsg, onceVars, synced, compacted, taskVars, readVars>>

\* the cache drops an idempotency marker IDEMPOTENCY_TTL after it was set
ExpireMarker(m) ==
    /\ m \in idem
    /\ idem' = idem \ {m}
    /\ UNCHANGED <<dbVars, redisVars, layerVars, conn, outbox, nmsg, onceVars, synced, compacted, taskVars, readVars>>

\* compress_operation_logs: Document.objects.get does not find a missing or
\* soft-deleted document (0 is returned); over the threshold the task calls
\* delete() on a sliced queryset, which Django refuses (TypeError) before any
\* row is deleted, and the exception leaves the task
compress_result(d) ==
    LET op_count == Cardinality({r \in opLog : r.document_id = d})
    IN  IF ~FoundDocument(d) THEN [returned |-> 0, raised |-> FALSE]
        ELSE IF op_count > COMPRESS_THRESHOLD THEN [returned |-> 0, raised |-> TRUE]
        ELSE [returned |-> 0, raised |-> FALSE]

compress_operation_logs(d) ==
    /\ compacted' = compress_result(d)
    /\ opLog' = opLog
    /\ UNCHANGED <<documents, activities, deletedUsers, sessionRows, rowLock, txn,
                   redisVars, layerVars, idem, conn, outbox, nmsg, onceVars, synced, taskVars, readVars>>

\* last_activity__lt=cutoff_time, is_active=True, at or before the cutoff
expired_at_cutoff(row, cutoff_time) ==
    row.exists /\ row.is_active /\ row.last_activity <= cutoff_time
\* last_activity__lt=cutoff_time, is_active=True
expired(row, cutoff_time) ==
    row.exists /\ row.is_active /\ row.last_activity < cutoff_time

\* cleanup_expired_sessions: one UPDATE of the rows the filter selects; a
\* queryset update() does not touch the auto_now field last_activity
cleanup_expired_sessions ==
    LET cutoff_time == now - SESSION_EXPIRY
        selected == {c \in Channels : expired(sessionRows[c], cutoff_time)}
    IN  /\ sessionRows' = [c \in Channels |->
                             IF c \in selected
                               THEN [sessionRows[c] EXCEPT !.is_active = FALSE]
                               ELSE sessionRows[c]]
        /\ expired_count' = Cardinality(selected)
        /\ now' = now
        /\ UNCHANGED <<documents, opLog, activities, deletedUsers, rowLock, txn,
                       redisVars, layerVars, idem, conn, outbox, nmsg, onceVars,
                       synced, compacted, readVars>>

\* a minute passes
minute_passes ==
    /\ now < MaxClock
    /\ now' = now + 1
    /\ expired_count' = expired_count
    /\ UNCHANGED <<dbVars, redisVars, layerVars, idem, conn, outbox, nmsg, onceVars,
                   synced, compacted, readVars>>

\* Document.objects.filter(id=..., is_deleted=False)...first()
load_document(d) ==
    IF FoundDocument(d)
      THEN [found |-> TRUE, current_version |-> documents[d].current_version]
      ELSE NoView

\* get_document_with_blocks up to its database read: a cached value is
\* returned at once, otherwise the document is loaded
get_document_with_blocks(d) ==
    LET cached_data == cache[get_document_cache_key(d, "with_blocks")] IN
    /\ reader.stage = "idle"
    /\ reader' = IF cached_data.exists
                   THEN [NoRead EXCEPT !.document_id = d, !.hit = TRUE,
                                       !.returned = cached_data.value]
                   ELSE [NoRead EXCEPT !.stage = "loaded", !.document_id = d,
                                       !.document = load_document(d)]
    /\ UNCHANGED <<dbVars, redisVars, layerVars, idem, conn, outbox, nmsg, onceVars,
                   synced, compacted, taskVars, cache>>

\* the rest of get_document_with_blocks: the loaded document, if there is
\* one, is put into the cache and returned
fill_cache ==
    LET d == reader.document_id IN
    /\ reader.stage = "loaded"
    /\ cache' = IF reader.document.found
                  THEN cache_set(cache, get_document_cache_key(d, "with_blocks"),
                                 reader.document)
                  ELSE cache
    /\ reader' = [reader EXCEPT !.stage = "idle", !.returned = reader.document]
    /\ UNCHANGED <<dbVars, redisVars, layerVars, idem, conn, outbox, nmsg, onceVars,
                   synced, compacted, taskVars>>

\* CACHE_TIMEOUT_SHORT after it was set the cache drops the entry
expire_entry(key) ==
    /\ cache[key].exists
    /\ cache' = cache_delete(cache, key)
    /\ UNCHANGED <<dbVars, redisVars, layerVars, idem, conn, outbox, nmsg, onceVars,
                   synced, compacted, taskVars, reader>>

\* ------------------------------------------------------------------ clock
\* a key whose lease never runs down
Frozen(ttl) == ttl

Later(ttl) == IF ttl > Quantum THEN ttl - Quantum ELSE 0

\* Quantum seconds pass: every Redis key ages, and one whose time is up is gone
Tick ==
    /\ presenceSet' = [d \in DocIds |->
          IF Later(presenceSet[d].ttl) = 0 THEN NoSet
          ELSE [presenceSet[d] EXCEPT !.ttl = Later(@)]]
    /\ presenceHash' = [k \in DocIds \X Users |->
          IF Later(presenceHash[k].ttl) = 0 THEN NoHash
          ELSE [presenceHash[k] EXCEPT !.ttl = Later(@)]]
    /\ awarenessKey' = [k \in DocIds \X Users |->
          IF Later(awarenessKey[k].ttl) = 0 THEN NoAwareness
          ELSE [awarenessKey[k] EXCEPT !.ttl = Later(@)]]
    /\ blockLock' = [k \in DocIds \X Blocks |->
          IF Later(blockLock[k].ttl) = 0 THEN NoLock
          ELSE [blockLock[k] EXCEPT !.ttl = Later(@)]]
    /\ UNCHANGED <<dbVars, layerVars, idem, conn, outbox, nmsg, onceVars, synced, compacted, taskVars, readVars>>

\* --------------------------------------------------------- specifications
\* the rows the REST API soft-deletes while sessions are live
DeletableUsers == {"u2"}
DeletableDocs == {"d1"}

GatewayIds == {"m1", NoId}
\* the sessions that send frames; the third one only listens
Senders == {"c1", "c2"}

\* the connection gateway with the operation sequencer behind it
Connects ==
    \E c \in Channels : \E sc \in Scopes(c), col \in Colors : connect(c, sc[1], sc[2], col)

Next ==
    \/ Connects
    \/ /\ nmsg < MaxFrames
       /\ \E c \in Senders, m \in GatewayIds, op \in GatewayOps :
             handle_operation(c, m, op)
    \/ \E c \in Channels : LockDocument(c)
    \/ \E c \in Channels, dbfail \in BOOLEAN : CommitOperation(c, dbfail)
    \/ \E c \in Channels : finish_operation(c)
    \/ \E c \in Channels : Deliver(c)
    \/ \E u \in DeletableUsers : soft_delete_user(u)

Spec == Init /\ [][Next]_vars

\* the relay alone: sessions join at any time, two of them submit operations
\* that commit, every consumer takes its queued events
NextRelay ==
    \/ Connects
    \/ /\ nmsg < MaxFrames
       /\ \E c \in Senders, op \in {OpValid} : handle_operation(c, NoId, op)
    \/ \E c \in Channels : LockDocument(c)
    \/ \E c \in Channels : CommitOperation(c, FALSE)
    \/ \E c \in Channels : finish_operation(c)
    \/ \E c \in Channels : Deliver(c)

SpecRelay == Init /\ [][NextRelay]_vars

\* the operation sequencer alone, called directly by concurrent callers
SeqOps == {OpValid, OpNoType, OpEmptyPayload, OpBadHex}
SeqIds == {"m1"}

NextSeq ==
    \/ \E c \in Channels, d \in DocIds, m \in SeqIds, op \in SeqOps :
          \E sc \in Scopes(c) : submit(c, d, sc[1], op, m)
    \/ \E c \in Channels : LockDocument(c)
    \/ \E c \in Channels, dbfail \in BOOLEAN : CommitOperation(c, dbfail)
    \/ \E u \in DeletableUsers : soft_delete_user(u)
    \/ \E d \in DeletableDocs : soft_delete_document(d)
    \/ \E d \in DocIds : compress_operation_logs(d)

SpecSeq == Init /\ [][NextSeq]_vars


\* block locks: sessions come and go, lock and unlock blocks, time passes
LockSessions == {"c1", "c2"}

NextLock ==
    \/ \E c \in LockSessions : \E sc \in Scopes(c), col \in Colors :
          connect(c, sc[1], sc[2], col)
    \/ \E c \in LockSessions : disconnect(c)
    \/ /\ nmsg < MaxLockFrames
       /\ \E c \in LockSessions, b \in Blocks : handle_block_lock(c, NoId, b)
    \/ /\ nmsg < MaxLockFrames
       /\ \E c \in LockSessions, b \in Blocks : handle_block_unlock(c, NoId, b)
    \/ Tick

SpecLock == Init /\ [][NextLock]_vars

\* time does pass
SpecLockFair == SpecLock /\ WF_vars(Tick)

\* presence: one session per user, cursor moves and pings, time passes
PresenceSessions == {"c1", "c2"}

NextPresence ==
    \/ \E c \in PresenceSessions : \E sc \in Scopes(c), col \in Colors :
          connect(c, sc[1], sc[2], col)
    \/ \E c \in PresenceSessions : disconnect(c)
    \/ /\ nmsg < MaxFrames
       /\ \E c \in PresenceSessions, p \in Positions : handle_cursor_update(c, NoId, p)
    \/ /\ nmsg < MaxFrames
       /\ \E c \in PresenceSessions : handle_ping(c, NoId)
    \/ \E c \in PresenceSessions : Deliver(c)
    \/ Tick

SpecPresence == Init /\ [][NextPresence]_vars

\* awareness: one session per user, awareness updates, time passes
NextAwareness ==
    \/ \E c \in PresenceSessions : \E sc \in Scopes(c), col \in Colors :
          connect(c, sc[1], sc[2], col)
    \/ \E c \in PresenceSessions : disconnect(c)
    \/ /\ nmsg < MaxFrames
       /\ \E c \in PresenceSessions, state \in AwarenessStates :
             handle_awareness_update(c, NoId, state)
    \/ \E c \in PresenceSessions : Deliver(c)
    \/ Tick

SpecAwareness == Init /\ [][NextAwareness]_vars

\* sessions: connections are accepted or refused (c2 may come for a document
\* its user may not view, c3 without a token), join step by step, take the
\* group's events and leave
SessionScopes(c) ==
    CASE c = "c2" -> {<<"u2", "d1">>, <<"u1", "d2">>}
      [] c = "c3" -> {<<"u1", "d1">>, <<Anonymous, "d1">>}
      [] OTHER    -> {<<"u1", "d1">>}

NextSession ==
    \/ \E c \in Channels : \E sc \in SessionScopes(c) : connect_accept(c, sc[1], sc[2])
    \/ \E c \in Channels, col \in Colors : connect_session(c, col)
    \/ \E c \in Channels : connect_announce(c)
    \/ \E c \in Channels : disconnect(c)
    \/ \E c \in Channels : Deliver(c)

SpecSession == Init /\ [][NextSession]_vars

\* faulty frames among valid ones
ReceiveSessions == {"c1", "c2"}
UnknownTypes == {"bogus", None}
RaisingTypes == {"cursor", "block.lock"}
ReceiveIds == {"m1", NoId}

NextReceive ==
    \/ \E c \in ReceiveSessions : \E sc \in Scopes(c), col \in Colors :
          connect(c, sc[1], sc[2], col)
    \/ /\ nmsg < MaxFaultyFrames
       /\ \E c \in ReceiveSessions : receive_invalid_json(c)
    \/ /\ nmsg < MaxFaultyFrames
       /\ \E c \in ReceiveSessions, m \in ReceiveIds, t \in UnknownTypes :
             receive_unknown(c, m, t)
    \/ /\ nmsg < MaxFaultyFrames
       /\ \E c \in ReceiveSessions, m \in ReceiveIds, t \in RaisingTypes :
             handler_raises(c, m, t)
    \/ /\ nmsg < MaxFaultyFrames
       /\ \E c \in ReceiveSessions, m \in ReceiveIds : handle_ping(c, m)
    \/ /\ nmsg < MaxFaultyFrames
       /\ \E c \in ReceiveSessions, m \in ReceiveIds :
             handle_cursor_update(c, m, 5)
    \/ \E c \in ReceiveSessions : Deliver(c)

SpecReceive == Init /\ [][NextReceive]_vars

\* resent frames: every frame carries one of two ids, markers expire
DedupSessions == {"c1", "c2"}

NextDedup ==
    \/ \E c \in DedupSessions : \E sc \in Scopes(c), col \in Colors :
          connect(c, sc[1], sc[2], col)
    \/ /\ nmsg < MaxDedupFrames
       /\ \E c \in DedupSessions, m \in MsgIds : handle_operation(c, m, OpValid)
    \/ \E c \in DedupSessions : LockDocument(c)
    \/ \E c \in DedupSessions : CommitOperation(c, FALSE)
    \/ \E c \in DedupSessions : finish_operation(c)
    \/ /\ nmsg < MaxDedupFrames
       /\ \E c \in DedupSessions, m \in MsgIds : handle_cursor_update(c, m, 5)
    \/ /\ nmsg < MaxDedupFrames
       /\ \E c \in DedupSessions, m \in MsgIds, b \in Blocks : handle_block_lock(c, m, b)
    \/ /\ nmsg < MaxDedupFrames
       /\ \E c \in DedupSessions, m \in MsgIds : handle_ping(c, m)
    \/ \E m \in MsgIds : ExpireMarker(m)

SpecDedup == Init /\ [][NextDedup]_vars

\* process_once called in sequence, all calls within the markers' lifetime
NextOnce ==
    /\ Len(returned) < MaxOnceCalls
    /\ \E m \in MsgIds, f \in Funcs : process_once(m, f)

SpecOnce == Init /\ [][NextOnce]_vars

\* two users on one document: A (session c1) submits m1 and B (session c2)
\* submits m2, each once, while the other's submit may be in flight
PairSessions == {"c1", "c2"}
PairId(c) == IF c = "c1" THEN "m1" ELSE "m2"

NextPair ==
    \/ \E c \in PairSessions : \E sc \in Scopes(c), col \in Colors :
          connect(c, sc[1], sc[2], col)
    \/ /\ \A c \in PairSessions : Open(c)
       /\ \E c \in PairSessions :
             PairId(c) \notin idem /\ handle_operation(c, PairId(c), OpValid)
    \/ \E c \in PairSessions : LockDocument(c)
    \/ \E c \in PairSessions : CommitOperation(c, FALSE)
    \/ \E c \in PairSessions : finish_operation(c)
    \/ \E c \in PairSessions : Deliver(c)

SpecPair == Init /\ [][NextPair]_vars

\* a client syncs: apply_state_vector is called for a document and the
\* client's state vector
sync(d, client_state_vector) ==
    /\ synced' = [document_id |-> d, client_state_vector |-> client_state_vector,
                  missing |-> apply_state_vector(d, client_state_vector)]
    /\ UNCHANGED <<dbVars, redisVars, layerVars, idem, conn, outbox, nmsg, onceVars, compacted, taskVars, readVars>>

\* the logs the sequencer can have written: for each document the versions
\* after the initial one up to its current_version, each with its payload
LoggablePayloads == {"aa", "bb"}
LoggedBy(d) == IF d = "d1" THEN "u1" ELSE "u2"
SyncRow(d, v, payload_hex) ==
    OperationRow(d, LoggedBy(d),
                 [operation_id |-> generate_operation_id(d, LoggedBy(d), NoId, v),
                  version |-> v, payload |-> fromhex(payload_hex)])
SyncVersions == INITIAL_VERSION .. (INITIAL_VERSION + MaxSyncOps)
StateVectors == {EmptyVector} \cup {VersionVector(v) : v \in 0 .. (INITIAL_VERSION + MaxSyncOps + 1)}

InitSync ==
    \E cv \in [DocIds -> SyncVersions] :
    \E hex \in [DocIds \X SyncVersions -> LoggablePayloads] :
        InitWith([d \in DocIds |-> [NewDocument EXCEPT !.current_version = cv[d]]],
                 {SyncRow(d, v, hex[<<d, v>>]) :
                    d \in DocIds, v \in (INITIAL_VERSION + 1) .. (INITIAL_VERSION + MaxSyncOps)}
                 \ {r \in {SyncRow(d, v, hex[<<d, v>>]) :
                            d \in DocIds, v \in (INITIAL_VERSION + 1) .. (INITIAL_VERSION + MaxSyncOps)} :
                       r.version > cv[r.document_id]})

NextSync == \E d \in DocIds, sv \in StateVectors : sync(d, sv)

SpecSync == InitSync /\ [][NextSync]_vars

\* rejected submits: d1 is stored and may be soft-deleted, d2 was never
\* stored; callers hand in every shape of operation data
RejectCallers == {"c1", "c2"}
MissingDocument == [NewDocument EXCEPT !.exists = FALSE]

InitReject ==
    InitWith([d \in DocIds |-> IF d = "d2" THEN MissingDocument ELSE NewDocument], {})

NextReject ==
    \/ \E c \in RejectCallers, d \in DocIds, op \in OperationDatas :
          \E sc \in Scopes(c) : submit(c, d, sc[1], op, NoId)
    \/ \E c \in RejectCallers : LockDocument(c)
    \/ \E c \in RejectCallers : CommitOperation(c, FALSE)
    \/ \E d \in DeletableDocs : soft_delete_document(d)

SpecReject == InitReject /\ [][NextReject]_vars

\* submitters that go away: two sessions submit, the task of either may be
\* cancelled while its submit is in flight, the database may fail
CancelSessions == {"c1", "c2"}

NextCancel ==
    \/ \E c \in CancelSessions : \E sc \in Scopes(c), col \in Colors :
          connect(c, sc[1], sc[2], col)
    \/ /\ nmsg < MaxFrames
       /\ \E c \in CancelSessions : handle_operation(c, NoId, OpValid)
    \/ \E c \in CancelSessions : LockDocument(c)
    \/ \E c \in CancelSessions, dbfail \in BOOLEAN : CommitOperation(c, dbfail)
    \/ \E c \in CancelSessions : finish_operation(c)
    \/ \E c \in CancelSessions : cancel(c)
    \/ \E c \in CancelSessions : Deliver(c)

SpecCancel == Init /\ [][NextCancel]_vars

\* compaction runs on logs around the threshold: d1 holds a log of any size
\* near COMPRESS_THRESHOLD (or none), d2 a short log or was never stored
CompactSizes ==
    {0} \cup ((COMPRESS_THRESHOLD - MaxOverThreshold) .. (COMPRESS_THRESHOLD + MaxOverThreshold))
ShortSizes == {0, 1, 2}
LogOf(d, n) ==
    {SyncRow(d, v, "aa") : v \in (INITIAL_VERSION + 1) .. (INITIAL_VERSION + n)}

InitCompact ==
    \E n1 \in CompactSizes, n2 \in ShortSizes, stored2 \in BOOLEAN :
        InitWith([d \in DocIds |->
                     IF d = "d1" THEN [NewDocument EXCEPT !.current_version = INITIAL_VERSION + n1]
                     ELSE IF stored2
                            THEN [NewDocument EXCEPT !.current_version = INITIAL_VERSION + n2]
                            ELSE MissingDocument],
                 LogOf("d1", n1) \cup (IF stored2 THEN LogOf("d2", n2) ELSE {}))

NextCompact ==
    \/ \E d \in DocIds : compress_operation_logs(d)
    \/ \E d \in DeletableDocs : soft_delete_document(d)

SpecCompact == InitCompact /\ [][NextCompact]_vars

\* ---- the session cleanup task over stored session rows
StoredSessions ==
    {NoSession} \cup
    {[exists |-> TRUE, document_id |-> "d1", user_id |-> "u1", is_active |-> a,
      color |-> DEFAULT_COLOR, last_activity |-> t] :
        a \in BOOLEAN, t \in EPOCH .. MaxCreated}

InitCleanup ==
    \E rows \in [Channels -> StoredSessions] :
        InitAt([d \in DocIds |-> NewDocument], {}, rows, MaxCreated)

NextCleanup ==
    \/ cleanup_expired_sessions
    \/ minute_passes

SpecCleanup == InitCleanup /\ [][NextCleanup]_vars

\* ---- one session submits m1 and then m2 while another session submits too
OrderSessions == {"c1", "c2"}
FirstId == "m1"
SecondId == "m2"
\* the ids the client of c has left to send, in the order it sends them
NextId(c) ==
    IF c # "c1" THEN NoId
    ELSE IF FirstId \notin idem THEN FirstId ELSE SecondId

NextOrder ==
    \/ \E c \in OrderSessions : \E sc \in Scopes(c), col \in Colors :
          connect(c, sc[1], sc[2], col)
    \/ /\ nmsg < MaxMsgs
       /\ \E c \in OrderSessions :
             NextId(c) \notin idem /\ handle_operation(c, NextId(c), OpValid)
    \/ \E c \in OrderSessions : LockDocument(c)
    \/ \E c \in OrderSessions, dbfail \in BOOLEAN : CommitOperation(c, dbfail)
    \/ \E c \in OrderSessions : finish_operation(c)
    \/ \E c \in OrderSessions : Deliver(c)

SpecOrder == Init /\ [][NextOrder]_vars

\* ---- requests that fail, sent once both sessions are open: malformed
\* operations, frames without their operation, lock requests without a block
\* or for a block someone else holds
FailingOps == {NoOperation, OpValid, OpNoType}
LockTargets == Blocks \cup {None}

NextFail ==
    \/ \E c \in Senders : \E sc \in Scopes(c), col \in Colors :
          connect(c, sc[1], sc[2], col)
    \/ /\ nmsg < MaxLockFrames
       /\ \A c \in Senders : Open(c)
       /\ \E c \in Senders, op \in FailingOps : handle_operation(c, NoId, op)
    \/ /\ nmsg < MaxLockFrames
       /\ \A c \in Senders : Open(c)
       /\ \E c \in Senders, b \in LockTargets : handle_block_lock(c, NoId, b)
    \/ \E c \in Senders : LockDocument(c)
    \/ \E c \in Senders : CommitOperation(c, FALSE)
    \/ \E c \in Senders : finish_operation(c)
    \/ \E c \in Senders : Deliver(c)

SpecFail == Init /\ [][NextFail]_vars

\* ---- cached reads of a document while operations are committed to it
CacheWriters == {"c1", "c2"}

NextCache ==
    \/ \E c \in CacheWriters, d \in DocIds : \E sc \in Scopes(c) :
          submit(c, d, sc[1], OpValid, NoId)
    \/ \E c \in CacheWriters : LockDocument(c)
    \/ \E c \in CacheWriters : CommitOperation(c, FALSE)
    \/ \E d \in DocIds : get_document_with_blocks(d)
    \/ fill_cache
    \/ \E key \in CacheKeys : expire_entry(key)

SpecCache == Init /\ [][NextCache]_vars

\* ---- a session goes through the steps of connect() while another session
\* submits; the submitter's user may be soft-deleted meanwhile
JoinSessions == {"c1", "c2"}

NextJoin ==
    \/ \E c \in JoinSessions : \E sc \in Scopes(c) : connect_accept(c, sc[1], sc[2])
    \/ \E c \in JoinSessions, col \in Colors : connect_session(c, col)
    \/ \E c \in JoinSessions : connect_announce(c)
    \/ /\ nmsg < MaxFrames
       /\ \E c \in JoinSessions : handle_operation(c, NoId, OpValid)
    \/ \E c \in JoinSessions : LockDocument(c)
    \/ \E c \in JoinSessions : CommitOperation(c, FALSE)
    \/ \E c \in JoinSessions : finish_operation(c)
    \/ \E c \in JoinSessions : Deliver(c)
    \/ \E u \in DeletableUsers : soft_delete_user(u)

SpecJoin == Init /\ [][NextJoin]_vars

\* ---- copies of one message arrive on two connections; each receive()
\* checks for the marker and sets it in two separate cache calls
RaceSessions == {"c1", "c2"}
RaceIds == {"m1"}

NextRace ==
    \/ \E c \in RaceSessions : \E sc \in Scopes(c), col \in Colors :
          connect(c, sc[1], sc[2], col)
    \/ /\ nmsg < MaxDedupFrames
       /\ \E c \in RaceSessions, m \in RaceIds, op \in {NoOperation, OpValid} :
             receive_check(c, m, op)
    \/ \E c \in RaceSessions : receive_mark(c)
    \/ \E c \in RaceSessions : LockDocument(c)
    \/ \E c \in RaceSessions : CommitOperation(c, FALSE)
    \/ \E c \in RaceSessions : finish_operation(c)
    \/ \E c \in RaceSessions : Deliver(c)

SpecRace == Init /\ [][NextRace]_vars

\* ---- a client resends an operation frame under the same id; the database
\* may fail during a submit, markers expire
RetrySessions == {"c1", "c2"}

NextRetry ==
    \/ \E c \in RetrySessions : \E sc \in Scopes(c), col \in Colors :
          connect(c, sc[1], sc[2], col)
    \/ /\ nmsg < MaxDedupFrames
       /\ \E c \in RetrySessions, m \in RaceIds : handle_operation(c, m, OpValid)
    \/ \E c \in RetrySessions : LockDocument(c)
    \/ \E c \in RetrySessions, dbfail \in BOOLEAN : CommitOperation(c, dbfail)
    \/ \E c \in RetrySessions : finish_operation(c)
    \/ \E m \in RaceIds : ExpireMarker(m)

SpecRetry == Init /\ [][NextRetry]_vars

\* connected clients that keep sending frames while the periodic task runs
IdleSessions == {"c1", "c2"}

NextIdle ==
    \/ \E c \in IdleSessions : \E sc \in Scopes(c), col \in Colors :
          connect(c, sc[1], sc[2], col)
    \/ /\ nmsg < MaxFrames
       /\ \E c \in IdleSessions : handle_ping(c, NoId)
    \/ /\ nmsg < MaxFrames
       /\ \E c \in IdleSessions, p \in Positions : handle_cursor_update(c, NoId, p)
    \/ minute_passes
    \/ cleanup_expired_sessions

SpecIdle == Init /\ [][NextIdle]_vars

\* ------------------------------------------------------------- properties
LoggedRows(d) == {r \in opLog : r.document_id = d}
LoggedVersions(d) == {r.version : r \in LoggedRows(d)}

\* the versions logged for each document are distinct, none exceeds the
\* document's current_version, and they fill the range that starts right
\* after the initial version and ends at current_version
VersionsGapFree ==
    \A d \in DocIds :
        /\ \A r1, r2 \in LoggedRows(d) : r1.version = r2.version => r1 = r2
        /\ \A r \in LoggedRows(d) : r.version <= documents[d].current_version
        /\ LoggedVersions(d) = (INITIAL_VERSION + 1) .. documents[d].current_version

\* a call that returns success was assigned the counter's value plus one and
\* leaves the counter at the version it was assigned
AssignsNextVersion ==
    \A c \in Channels :
        (txn[c].stage = "locked" /\ txn'[c].stage = "returned" /\ txn'[c].result.success)
        => LET d == txn[c].document_id
           IN  /\ txn'[c].result.version = documents[d].current_version + 1
               /\ documents'[d].current_version = txn'[c].result.version
               /\ opLog' \ opLog = {OperationRow(d, txn[c].user_id, txn'[c].result)}

\* C1: under every interleaving of concurrent calls and of compaction runs,
\* each successful submit is assigned current_version + 1 and advances the
\* counter to it, and the logged versions of every document are strictly
\* increasing without gaps or duplicates and never above current_version
C1_VersionOrder == [](VersionsGapFree) /\ [][AssignsNextVersion]_vars

\* a document's counter has advanced, one caller holds its row and read the
\* advanced counter, and another caller's submit waits for the row
C1_Witness ==
    \E d \in DocIds, c1, c2 \in Channels :
        /\ txn[c1].stage = "locked" /\ txn[c1].document_id = d
        /\ txn[c1].current_version = INITIAL_VERSION + 1
        /\ txn[c2].stage = "waiting" /\ txn[c2].document_id = d
        /\ txn[c1].user_id # txn[c2].user_id
        /\ LoggedRows(d) # {}

\* the client_message_id a logged row was submitted with
MessageIdOf(r) == r.operation_id[3]

\* C3: one (document_id, author_id, client_message_id) has at most one
\* persisted operation, however often it is submitted
C3_OnePerMessageId ==
    \A r1, r2 \in opLog :
        (r1.document_id = r2.document_id /\ r1.user_id = r2.user_id
            /\ MessageIdOf(r1) = MessageIdOf(r2)) => r1 = r2

\* C4: a call of the sequencer that returns a failure leaves the document's
\* counter, its edit metadata and the operation log as they were
C4_FailureChangesNothing ==
    [][\A c \in Channels :
          (txn[c].stage \in {"waiting", "locked"} /\ txn'[c].stage = "returned"
              /\ ~txn'[c].result.success)
          => UNCHANGED <<documents, opLog>>]_vars


\* the operation.ack frames sent so far, by session and position
AckFrames ==
    {ci \in Channels \X (1 .. (MaxFrames + 1)) :
        /\ ci[2] \in DOMAIN outbox[ci[1]]
        /\ outbox[ci[1]][ci[2]].type = "operation.ack"}
AckedVersions == {outbox[ci[1]][ci[2]].version : ci \in AckFrames}
Quiescent == \A c \in Channels : txn[c].stage = "none"

\* C2: once no submit is in flight, the versions acknowledged for the
\* document are the N versions that follow its initial version, each
\* acknowledged once (no gaps, no duplicates)
C2_AckedVersionsContiguous ==
    Quiescent =>
        /\ Cardinality(AckFrames) = Cardinality(AckedVersions)
        /\ AckedVersions =
              (INITIAL_VERSION + 1) .. (INITIAL_VERSION + Cardinality(AckedVersions))

\* the copies of one relayed operation that a session has pending or received
CopiesQueued(events, oid) ==
    {i \in DOMAIN events :
        events[i].type = "operation.broadcast" /\ events[i].body.operation_id = oid}
CopiesSent(frames, oid) ==
    {i \in DOMAIN frames :
        frames[i].type = "operation" /\ frames[i].data.operation_id = oid}
PendingCopies(x, oid) == CopiesQueued(inbox[x], oid)
ReceivedCopies(x, oid) == CopiesSent(outbox[x], oid)
RelayedIds ==
    {r.operation_id : r \in opLog}

\* no session has received a relayed copy of an operation it submitted, and
\* no session has more than one copy of an operation, pending or received
NoOwnCopyAtMostOne ==
    \A x \in Channels :
        /\ \A i \in DOMAIN outbox[x] :
              outbox[x][i].type = "operation" => outbox[x][i].origin # x
        /\ \A oid \in RelayedIds :
              Cardinality(PendingCopies(x, oid)) + Cardinality(ReceivedCopies(x, oid)) <= 1

\* the relay of a committed operation queues exactly one copy for every
\* session subscribed to the group at that time and none for any other
RelayQueuesOne ==
    \A c \in Channels :
        (txn[c].stage = "returned" /\ txn'[c].stage = "none" /\ txn[c].result.success)
        => LET oid == txn[c].result.operation_id
           IN  \A x \in Channels :
                  /\ Len(inbox'[x]) = Len(inbox[x]) + (IF x \in groups[DocOf(c)] THEN 1 ELSE 0)
                  /\ Cardinality(CopiesQueued(inbox'[x], oid)) =
                        (IF x \in groups[DocOf(c)] THEN 1 ELSE 0)
                  /\ x \in groups[DocOf(c)] => inbox'[x][Len(inbox'[x])].origin = c

\* a session that takes a queued copy receives it unless it is the submitter
RelayDeliversOne ==
    \A x \in Channels :
        (inbox[x] # <<>> /\ inbox'[x] = Tail(inbox[x])
            /\ Head(inbox[x]).type = "operation.broadcast")
        => LET oid == Head(inbox[x]).body.operation_id
           IN  IF Head(inbox[x]).origin = x
                 THEN outbox'[x] = outbox[x]
                 ELSE /\ Len(outbox'[x]) = Len(outbox[x]) + 1
                      /\ Cardinality(CopiesSent(outbox'[x], oid)) = 1

\* C5: the session that submitted a relayed operation never receives its own
\* copy, and every other session of the group at that time, another session
\* of the same user included, is queued and then receives exactly one copy
C5_RelayExactlyOnce ==
    [](NoOwnCopyAtMostOne) /\ [][RelayQueuesOne /\ RelayDeliversOne]_vars

\* c1's operation has reached c2 and c3 (the submitter's other session) and
\* c1 has taken and dropped its own copy
C5_Witness ==
    \E oid \in RelayedIds :
        /\ oid[2] = "u1"
        /\ \E i \in ReceivedCopies("c2", oid) : outbox["c2"][i].origin = "c1"
        /\ \E i \in ReceivedCopies("c3", oid) : outbox["c3"][i].origin = "c1"
        /\ UserOf("c3") = UserOf("c1")
        /\ inbox["c1"] = <<>>
        /\ ReceivedCopies("c1", oid) = {}

FanoutFrameTypes ==
    {"operation", "cursor.update", "awareness", "typing.start", "typing.stop",
     "block.locked", "block.unlocked", "user.joined", "user.left"}

\* C6: no session has received a fan-out message that it originated itself
C6_NoEchoToOriginator ==
    \A c \in Channels : \A i \in DOMAIN outbox[c] :
        outbox[c][i].type \in FanoutFrameTypes => outbox[c][i].origin # c


\* what a step of session c shows of a lock or unlock request it handled
LastQueued(c) == inbox'[c][Len(inbox'[c])]
Announced(c, type, b) ==
    /\ Len(inbox'[c]) = Len(inbox[c]) + 1
    /\ LastQueued(c).type = type
    /\ LastQueued(c).origin = c
    /\ LastQueued(c).body.block_id = b
Granted(c, b) == Announced(c, "block.locked", b)
Refused(c) ==
    outbox'[c] = Append(outbox[c], [type |-> "error",
                                    error |-> [message |-> "Block is already locked"]])
Released(c, b) == Announced(c, "block.unlocked", b)

Held(k) == blockLock[k].owner # None

\* a lock has an owner exactly while its lease has time left
LockWellFormed ==
    \A k \in DocIds \X Blocks :
        /\ blockLock[k].owner \in Users \cup {None}
        /\ Held(k) <=> blockLock[k].ttl > 0

\* an acquire is granted only on a free lock, which then belongs to the
\* caller for a full lease; it is refused only on a held lock, whose owner
\* and remaining lease stay as they were
AcquireExclusive ==
    \A c \in Channels, b \in Blocks :
        LET k == <<DocOf(c), b>>
        IN  /\ Granted(c, b) =>
                 /\ ~Held(k)
                 /\ blockLock' = [blockLock EXCEPT ![k] =
                                    [owner |-> UserOf(c), ttl |-> LOCK_TIMEOUT]]
            /\ Refused(c) => (Held(k) /\ blockLock' = blockLock)

\* C7: every (document, block) has at most one owner: an acquire on a held,
\* unexpired lock returns false and changes neither owner nor lease, and of
\* several acquires of a free lock exactly the first one is granted
C7_LockMutualExclusion == [](LockWellFormed) /\ [][AcquireExclusive]_vars

\* u1 holds the block, u2 saw it being locked and was refused
C7_Witness ==
    /\ blockLock[<<"d1", "b1">>].owner = "u1"
    /\ \E i \in DOMAIN inbox["c2"] :
          inbox["c2"][i].type = "block.locked" /\ inbox["c2"][i].origin = "c1"
    /\ \E i \in DOMAIN outbox["c2"] :
          outbox["c2"][i] = [type |-> "error",
                             error |-> [message |-> "Block is already locked"]]

\* C8: a release removes the lock exactly when the caller is its current
\* owner, in one step; a release by anyone else, the late release of an
\* expired and re-acquired lock included, leaves the lock as it is
C8_ReleaseOnlyByOwner ==
    [][\A c \in Channels, b \in Blocks :
          Released(c, b) =>
             LET k == <<DocOf(c), b>>
             IN  blockLock' = IF blockLock[k].owner = UserOf(c)
                                THEN [blockLock EXCEPT ![k] = NoLock]
                                ELSE blockLock]_vars

\* c2 saw u1 lock the block, then itself lock it, then u1's late unlock,
\* and u2 still owns the block
C8_Witness ==
    /\ blockLock[<<"d1", "b1">>].owner = "u2"
    /\ \E i, j, k \in DOMAIN inbox["c2"] :
          /\ i < j /\ j < k
          /\ inbox["c2"][i].type = "block.locked" /\ inbox["c2"][i].origin = "c1"
          /\ inbox["c2"][j].type = "block.locked" /\ inbox["c2"][j].origin = "c2"
          /\ inbox["c2"][k].type = "block.unlocked" /\ inbox["c2"][k].origin = "c1"

DisconnectKeepsLocks ==
    \A c \in Channels :
        (conn[c].status = "open" /\ conn'[c].status = "closed") => blockLock' = blockLock

\* C9: a disconnect leaves every lock as it is, and every held lock is free
\* again at some later time without any cleanup step
C9_LockOutlivesSession ==
    /\ [][DisconnectKeepsLocks]_vars
    /\ \A k \in DocIds \X Blocks : Held(k) ~> ~Held(k)

\* u1's session is closed and u1 still owns the block it locked
C9_Witness ==
    /\ conn["c1"].status = "closed"
    /\ blockLock[<<"d1", "b1">>].owner = "u1"
    /\ blockLock[<<"d1", "b1">>].ttl < LOCK_TIMEOUT
    /\ \E i \in DOMAIN inbox["c2"] :
          inbox["c2"][i].type = "user.left" /\ inbox["c2"][i].origin = "c1"

\* C10: a presence entry that has been kept alive since the join is listed
\* by get_active_users with the cursor last written to it
C10_RefreshedEntryListed ==
    \A d \in DocIds, u \in Users :
        LET h == presenceHash[<<d, u>>]
        IN  (h.exists /\ h.display_name # None) =>
               \E e \in get_active_users(d) :
                   e.user_id = u /\ e.cursor = json_loads(h.cursor)


ListedUsers(d) == {e.user_id : e \in get_active_users(d)}

\* C11: the user of an open session whose presence entry is alive, because
\* the session keeps refreshing it, is listed by get_active_users
C11_KeptAliveEntryListed ==
    \A c \in Channels :
        (Open(c) /\ presenceHash[<<DocOf(c), UserOf(c)>>].ttl > 0)
        => UserOf(c) \in ListedUsers(DocOf(c))


\* C12: an awareness update refreshes the user's presence entry: while the
\* session is open, the entry lives at least as long as the awareness last
\* written for it
C12_AwarenessRefreshesEntry ==
    \A c \in Channels :
        LET k == <<DocOf(c), UserOf(c)>>
        IN  (Open(c) /\ awarenessKey[k].exists)
            => (presenceHash[k].exists /\ presenceHash[k].ttl >= awarenessKey[k].ttl)


\* a session that was established and has disconnected
Left(c) == conn[c].status = "closed" /\ sessionRows[c].exists
Leaves(c) == conn[c].status = "open" /\ conn'[c].status = "closed"

\* a disconnect takes the session out of the group, removes its user from
\* the member set, deletes the user's entry, and queues user.left for
\* exactly the sessions that remain in the group
LeaveStep ==
    \A c \in Channels :
        Leaves(c) =>
           LET d == DocOf(c)
               u == UserOf(c)
           IN  /\ c \notin groups'[d]
               /\ u \notin presenceSet'[d].members
               /\ ~presenceHash'[<<d, u>>].exists
               /\ u \notin {e.user_id : e \in active_users(presenceSet', presenceHash', d)}
               /\ \A x \in Channels :
                     IF x \in groups'[d]
                       THEN /\ Len(inbox'[x]) = Len(inbox[x]) + 1
                            /\ inbox'[x][Len(inbox'[x])].type = "user.left"
                            /\ inbox'[x][Len(inbox'[x])].user_id = u
                            /\ inbox'[x][Len(inbox'[x])].origin = c
                       ELSE inbox'[x] = inbox[x]

\* nothing is queued for or sent to a session that has left
NothingAfterLeave ==
    \A c \in Channels :
        Left(c) => (inbox'[c] = inbox[c] /\ outbox'[c] = outbox[c])

\* a user becomes listed only by the join of one of its sessions
ListedOnlyByJoin ==
    \A d \in DocIds, u \in Users :
        (u \notin ListedUsers(d)
            /\ u \in {e.user_id : e \in active_users(presenceSet', presenceHash', d)})
        => \E c \in Channels :
              /\ conn[c].status \in {"new", "joining"}
              /\ conn'[c].status \in {"announcing", "open"}
              /\ conn'[c].user = u /\ conn'[c].document_id = d

\* C13: a session that disconnects is out of the fan-out group and gets no
\* further event, its user's entry is deleted and the user stays out of
\* get_active_users until a later join, and user.left is queued for the
\* sessions remaining in the group
C13_LeaveRemoves ==
    /\ [](\A c \in Channels : Left(c) => \A d \in DocIds : c \notin groups[d])
    /\ [][LeaveStep /\ NothingAfterLeave /\ ListedOnlyByJoin]_vars

\* c2 has left, c1 was told, c3 joined afterwards and c2 got nothing of it
C13_Witness ==
    /\ Left("c2")
    /\ "u2" \notin ListedUsers("d1")
    /\ \E i, j \in DOMAIN outbox["c1"] :
          /\ i < j
          /\ outbox["c1"][i].type = "user.left" /\ outbox["c1"][i].origin = "c2"
          /\ outbox["c1"][j].type = "user.joined" /\ outbox["c1"][j].origin = "c3"
    /\ \A i \in DOMAIN inbox["c2"] : inbox["c2"][i].origin # "c3"
    /\ \A i \in DOMAIN outbox["c2"] :
          outbox["c2"][i].type \in FanoutFrameTypes => outbox["c2"][i].origin # "c3"


\* a connection that connect() closed
WasRejected(c) == outbox[c] # <<>> /\ outbox[c][1].type = "close"

\* C14: a connection closed by connect got code 4001 (no authenticated user)
\* or 4003 (no access) and nothing else, is in no group, has no session, and
\* no event was ever queued or delivered on its behalf
C14_RejectedDoesNothing ==
    \A c \in Channels :
        WasRejected(c) =>
           /\ outbox[c] = <<[type |-> "close",
                             code |-> IF UserOf(c) = Anonymous THEN 4001 ELSE 4003]>>
           /\ \A d \in DocIds : c \notin groups[d]
           /\ ~sessionRows[c].exists
           /\ \A x \in Channels :
                 /\ \A i \in DOMAIN inbox[x] : inbox[x][i].origin # c
                 /\ \A i \in DOMAIN outbox[x] :
                       outbox[x][i].type \in FanoutFrameTypes => outbox[x][i].origin # c


Established(c) ==
    /\ outbox[c] # <<>>
    /\ outbox[c][1].type = "connection.established"
    /\ outbox[c][1].session_id = c
    /\ outbox[c][1].user_color = sessionRows[c].color

\* a session's user.joined, queued for or delivered to anyone
JoinAnnounced(c) ==
    \E x \in Channels :
        \/ \E i \in DOMAIN inbox[x] :
              inbox[x][i].type = "user.joined" /\ inbox[x][i].origin = c
        \/ \E i \in DOMAIN outbox[x] :
              outbox[x][i].type = "user.joined" /\ outbox[x][i].origin = c

\* before the session is created the client has been sent nothing; afterwards
\* the first thing it was sent is connection.established with the session's
\* id and color; user.joined exists only for a session that was sent it
EstablishedFirst ==
    \A c \in Channels :
        /\ conn[c].status \in {"new", "joining"} => outbox[c] = <<>>
        /\ conn[c].status \in {"announcing", "open"} => Established(c)
        /\ JoinAnnounced(c) =>
              (sessionRows[c].exists /\ Established(c) /\ conn[c].status \in {"open", "closed"})

\* the step that creates the session: the channel is already in the group, the
\* row gets the color, the presence entry is written, the initial state (with
\* the document's state and the users present, the new one included) is sent
\* to the new session alone and nothing is announced yet
SessionStep ==
    \A c \in Channels :
        (conn[c].status = "joining" /\ conn'[c].status = "announcing") =>
            LET d == DocOf(c) IN
            /\ c \in groups[d] /\ groups' = groups
            /\ ~sessionRows[c].exists
            /\ sessionRows'[c].exists /\ sessionRows'[c].color \in Colors
            /\ outbox' = [outbox EXCEPT ![c] =
                  <<[type |-> "connection.established", session_id |-> c,
                     user_color |-> sessionRows'[c].color,
                     document_state |-> get_document_state(d),
                     active_users |-> active_users(presenceSet', presenceHash', d)]>>]
            /\ UserOf(c) \in {e.user_id : e \in active_users(presenceSet', presenceHash', d)}
            /\ inbox' = inbox

\* the step that announces: user.joined is queued for every member of the
\* group, after the initial state was sent
AnnounceStep ==
    \A c \in Channels :
        (conn[c].status = "announcing" /\ conn'[c].status = "open") =>
            /\ Established(c)
            /\ outbox' = outbox
            /\ \A x \in Channels :
                  inbox'[x] = IF x \in groups[DocOf(c)]
                                THEN Append(inbox[x],
                                       [type |-> "user.joined", user_id |-> UserOf(c),
                                        exclude_channel |-> None, origin |-> c,
                                        body |-> [color |-> sessionRows[c].color,
                                                  session_id |-> c]])
                                ELSE inbox[x]

\* C15: a successful connect creates the session with its color while the
\* channel is already in the group, then sends connection.established to the
\* new session, and only then announces user.joined; connection.established
\* is the first message the new session receives
C15_EstablishedBeforeJoined ==
    /\ []EstablishedFirst
    /\ [][SessionStep /\ AnnounceStep]_vars

\* c2 joined the group before c1 announced itself: c1's user.joined waited
\* in c2's queue and reached c2's client after connection.established
C15_Witness ==
    /\ Open("c2") /\ Established("c2")
    /\ Len(outbox["c2"]) >= 2
    /\ outbox["c2"][2].type = "user.joined" /\ outbox["c2"][2].origin = "c1"
    /\ "u1" \notin {e.user_id : e \in outbox["c2"][1].active_users}
    /\ \E i \in DOMAIN outbox["c1"] :
          outbox["c1"][i].type = "user.joined" /\ outbox["c1"][i].origin = "c2"


ErrorFrame(message) == [type |-> "error", error |-> [message |-> message]]

\* what a faulty frame does: one error frame for the sender, nothing for
\* anyone else, nothing queued for the group, connection, group, database and
\* Redis state as before
RepliesError(c, message) ==
    /\ outbox' = [outbox EXCEPT ![c] = Append(outbox[c], ErrorFrame(message))]
    /\ inbox' = inbox
    /\ conn' = conn /\ groups' = groups
    /\ UNCHANGED <<dbVars, redisVars>>

FaultyFrameStep ==
    \A c \in Channels, m \in ReceiveIds :
        /\ receive_invalid_json(c) => RepliesError(c, "Invalid JSON")
        /\ \A t \in UnknownTypes :
              (receive_unknown(c, m, t) /\ ~Dropped(m))
                 => RepliesError(c, "Unknown message type")
        /\ \A t \in RaisingTypes :
              (handler_raises(c, m, t) /\ ~Dropped(m))
                 => RepliesError(c, "Internal server error")

GotError(c) == \E i \in DOMAIN outbox[c] : outbox[c][i].type = "error"

\* a valid frame is handled the same whether or not its sender was sent an
\* error before: a ping is answered with pong, a cursor move is queued for
\* every member of the group
ValidFrameStep ==
    \A c \in Channels, m \in ReceiveIds :
        /\ (handle_ping(c, m) /\ ~Dropped(m)) =>
              outbox' = [outbox EXCEPT ![c] = Append(outbox[c], [type |-> "pong"])]
        /\ (handle_cursor_update(c, m, 5) /\ ~Dropped(m)) =>
              /\ presenceHash'[<<DocOf(c), UserOf(c)>>].cursor = json_dumps(CursorData(5))
              /\ \A x \in groups[DocOf(c)] :
                    /\ Len(inbox'[x]) = Len(inbox[x]) + 1
                    /\ inbox'[x][Len(inbox'[x])].type = "cursor.update"
                    /\ inbox'[x][Len(inbox'[x])].origin = c

\* a session that was sent an error is still connected, still in its group,
\* was never sent a close frame, and accepts the next frame
StaysConnected ==
    \A c \in Channels :
        GotError(c) =>
            /\ Open(c) /\ c \in groups[DocOf(c)]
            /\ \A i \in DOMAIN outbox[c] : outbox[c][i].type # "close"
            /\ nmsg < MaxFaultyFrames => ENABLED handle_ping(c, NoId)

\* C16: a frame that is not JSON, has a type without handler, or makes its
\* handler raise is answered with an error frame to its sender only and the
\* connection is kept: the session stays in its group and its later valid
\* frames are handled as usual
C16_FaultyFrameKeepsSession ==
    /\ []StaysConnected
    /\ [][FaultyFrameStep /\ ValidFrameStep]_vars

\* c1 sent a frame of unknown type, then one the handler choked on, then a
\* ping that was answered; c2 saw none of the errors
C16_Witness ==
    /\ Len(outbox["c1"]) >= 4
    /\ \E i \in DOMAIN outbox["c1"] :
          /\ i + 2 \in DOMAIN outbox["c1"]
          /\ outbox["c1"][i] = ErrorFrame("Unknown message type")
          /\ outbox["c1"][i + 1] = ErrorFrame("Internal server error")
          /\ outbox["c1"][i + 2].type = "pong"
    /\ Open("c2") /\ ~GotError("c2")
    /\ "c1" \in groups["d1"]


\* some frame with id m is received from c
Receives(c, m) ==
    \/ handle_operation(c, m, OpValid)
    \/ handle_cursor_update(c, m, 5)
    \/ \E b \in Blocks : handle_block_lock(c, m, b)
    \/ handle_ping(c, m)

\* a frame whose id is marked changes nothing: no reply, no event for the
\* group, no call of the sequencer, database and Redis state as before, and
\* the marker is not renewed
DuplicateStep ==
    \A c \in Channels, m \in MsgIds :
        (Receives(c, m) /\ m \in idem) =>
            /\ outbox' = outbox /\ inbox' = inbox
            /\ txn' = txn /\ idem' = idem
            /\ conn' = conn /\ groups' = groups
            /\ UNCHANGED <<documents, opLog, activities, sessionRows, rowLock, redisVars>>

\* a frame whose id is not marked is handled and its id marked
FirstStep ==
    \A c \in Channels, m \in MsgIds :
        m \notin idem =>
            /\ Receives(c, m) => idem' = idem \cup {m}
            /\ handle_operation(c, m, OpValid) =>
                  (txn'[c].stage = "waiting" /\ txn'[c].message_id = m)
            /\ handle_ping(c, m) =>
                  outbox'[c] = Append(outbox[c], [type |-> "pong"])
            /\ handle_cursor_update(c, m, 5) =>
                  /\ presenceHash'[<<DocOf(c), UserOf(c)>>].cursor = json_dumps(CursorData(5))
                  /\ \A x \in groups[DocOf(c)] : Len(inbox'[x]) = Len(inbox[x]) + 1
            /\ \A b \in Blocks :
                  handle_block_lock(c, m, b) =>
                     \/ /\ blockLock'[<<DocOf(c), b>>].owner = UserOf(c)
                        /\ \A x \in groups[DocOf(c)] : Len(inbox'[x]) = Len(inbox[x]) + 1
                     \/ /\ blockLock' = blockLock
                        /\ outbox'[c] = Append(outbox[c], ErrorFrame("Block is already locked"))

\* a marker is there only for an id that was received, and goes only by expiry
MarkerStep ==
    \A m \in MsgIds :
        /\ (m \notin idem /\ m \in idem') => \E c \in Channels : Receives(c, m)
        /\ (m \in idem /\ m \notin idem') => ExpireMarker(m)

\* C17: a frame whose id is marked as processed is dropped without reply,
\* broadcast or any change of state; a frame whose id is not marked is handled
\* and its id is marked
C17_DuplicateDropped == [][DuplicateStep /\ FirstStep /\ MarkerStep]_vars

\* c1's ping m1 was answered, its resend and a lock request of c2 under the
\* same id were dropped: one pong, no lock, three frames received
C17_Witness ==
    /\ nmsg = 3
    /\ idem = {"m1"}
    /\ Open("c2")
    /\ Len(outbox["c1"]) = 2 /\ outbox["c1"][2].type = "pong"
    /\ Len(outbox["c2"]) = 1
    /\ \A b \in Blocks : blockLock[<<"d1", b>>] = NoLock
    /\ opLog = {}
    /\ \A c \in Channels : \A i \in DOMAIN inbox[c] : inbox[c][i].type = "user.joined"


LastReturned == returned'[Len(returned')]
RaisedCalls(m) ==
    Cardinality({i \in DOMAIN returned : returned[i].message_id = m /\ returned[i].raised})

\* one call of process_once: for a marked id the function does not run and
\* (None, False) is returned; for an unmarked id the function runs once, and
\* if it returns, the id is marked and (its result, True) is returned
OnceStep ==
    \A m \in MsgIds, f \in Funcs :
        process_once(m, f) =>
            /\ Len(returned') = Len(returned) + 1
            /\ m \in idem =>
                  /\ call_count' = call_count
                  /\ LastReturned = Outcome(m, FALSE, None, FALSE)
                  /\ idem' = idem
            /\ (m \notin idem) =>
                  /\ call_count' = [call_count EXCEPT ![m] = call_count[m] + 1]
                  /\ ~f.raises =>
                        /\ idem' = idem \cup {m}
                        /\ LastReturned = Outcome(m, FALSE, f.value, TRUE)

\* calls in sequence within the TTL: the function ran once for every call
\* that raised, and once more if the id is marked
RunsOncePerCompletion ==
    \A m \in MsgIds :
        call_count[m] = RaisedCalls(m) + (IF m \in idem THEN 1 ELSE 0)

\* C18 (as amended): process_once runs the function only for an unmarked id,
\* and when the function returns it marks the id and returns (result, True);
\* for a marked id it returns (None, False) without running the function;
\* calls in sequence with one id, within the TTL, run the function exactly
\* once after the first call in which it returned
C18_ProcessOnce == []RunsOncePerCompletion /\ [][OnceStep]_vars

\* C18 (as stated): calls in sequence with one id, within the TTL, run the
\* function exactly once
C18_RunsExactlyOnce ==
    \A m \in MsgIds :
        Cardinality({i \in DOMAIN returned : returned[i].message_id = m}) >= 2
            => call_count[m] = 1

\* three calls with m1: the function returned in the first, the other two
\* were answered (None, False)
C18_Witness ==
    /\ Len(returned) >= 3
    /\ returned[1] = Outcome("m1", FALSE, "result", TRUE)
    /\ returned[2] = Outcome("m1", FALSE, None, FALSE)
    /\ returned[3] = Outcome("m1", FALSE, None, FALSE)
    /\ call_count["m1"] = 1


Other(c) == IF c = "c1" THEN "c2" ELSE "c1"
Acks(c) == {i \in DOMAIN outbox[c] : outbox[c][i].type = "operation.ack"}
Relayed(c) == {i \in DOMAIN outbox[c] : outbox[c][i].type = "operation"}
AckOf(c) == outbox[c][CHOOSE i \in Acks(c) : TRUE]

\* both submits are through and every queued event was taken
PairDone ==
    /\ idem = {"m1", "m2"}
    /\ \A c \in PairSessions : txn[c].stage = "none" /\ inbox[c] = <<>>

\* the outcome: two rows with versions 2 and 3, the document at 3, one ack
\* per session with its own id and version, and in each session's frames one
\* relayed operation, the other session's, with the other's version
PairOutcome ==
    PairDone =>
        /\ documents["d1"].current_version = INITIAL_VERSION + 2
        /\ LoggedVersions("d1") = {INITIAL_VERSION + 1, INITIAL_VERSION + 2}
        /\ Cardinality(LoggedRows("d1")) = 2
        /\ \A c \in PairSessions :
              /\ Cardinality(Acks(c)) = 1
              /\ AckOf(c).id = PairId(c)
              /\ AckOf(c).version \in {INITIAL_VERSION + 1, INITIAL_VERSION + 2}
              /\ AckOf(c).version # AckOf(Other(c)).version
              /\ Cardinality(Relayed(c)) = 1
              /\ \A i \in Relayed(c) :
                    /\ outbox[c][i].origin = Other(c)
                    /\ outbox[c][i].data.version = AckOf(Other(c)).version

\* the order of the versions is the order of entry into the locked section:
\* a submit that gets the row lock reads the counter there, is assigned the
\* next version when it commits, and is acknowledged with that version
EntryOrder ==
    \A c \in PairSessions :
        /\ (txn[c].stage = "waiting" /\ txn'[c].stage = "locked") =>
              txn'[c].current_version = INITIAL_VERSION + Cardinality(LoggedRows("d1"))
        /\ (txn[c].stage = "locked" /\ txn'[c].stage = "returned") =>
              /\ txn'[c].result.success
              /\ txn'[c].result.version = txn[c].current_version + 1
              /\ documents'["d1"].current_version = txn[c].current_version + 1
        /\ (txn[c].stage = "returned" /\ txn'[c].stage = "none") =>
              outbox'[c] = Append(outbox[c], [type |-> "operation.ack",
                                              id |-> PairId(c),
                                              version |-> txn[c].result.version])

\* C19: with the document at version 1, two concurrent submits of two users
\* get versions 2 and 3 in the order in which they entered the locked
\* section, each is acknowledged with its own version, the document ends at
\* version 3, and each session is relayed the other's operation and not its own
C19_ConcurrentPair == []PairOutcome /\ [][EntryOrder]_vars

\* A entered the locked section first: A holds the ack for version 2 and B's
\* operation, B the ack for version 3 and A's operation
C19_Witness ==
    /\ PairDone
    /\ AckOf("c1").version = INITIAL_VERSION + 1
    /\ AckOf("c2").version = INITIAL_VERSION + 2
    /\ \E i \in Relayed("c1") : outbox["c1"][i].data.version = INITIAL_VERSION + 2
    /\ \E i \in Relayed("c2") : outbox["c2"][i].data.version = INITIAL_VERSION + 1


\* the logged operations of the synced document after the client's version
RowsAfter ==
    {r \in opLog : /\ r.document_id = synced.document_id
                   /\ r.version > vector_version(synced.client_state_vector)}

Returns(c) == txn[c].stage \in {"waiting", "locked"} /\ txn'[c].stage = "returned"
LacksField(op) == ~op.has_type \/ op.payload = "absent"
NothingAssigned == documents' = documents /\ opLog' = opLog /\ activities' = activities

\* a call for a document that is not stored or is soft-deleted when the row
\* is looked up returns the failure 'Document not found'; a call whose
\* operation data has no type or no payload returns the failure 'Invalid
\* operation format'; neither writes a row or moves the counter
RejectStep ==
    \A c \in Channels :
        Returns(c) =>
            LET t == txn[c]
                r == txn'[c].result
            IN  /\ (t.stage = "waiting") =>
                      /\ ~FoundDocument(t.document_id)
                      /\ r = Failure("Document not found", FALSE, 0, <<>>)
                      /\ NothingAssigned
                /\ (t.stage = "locked" /\ LacksField(t.operation_data)) =>
                      /\ r = Failure("Invalid operation format", FALSE, 0, <<>>)
                      /\ NothingAssigned

\* a call is never left waiting for (or holding) the row of a document that
\* cannot be found: it has returned the failure instead
NotFoundReturns ==
    \A c \in Channels :
        txn[c].stage = "locked" => documents[txn[c].document_id].exists

\* C21: a submit for a document that does not exist or is soft-deleted
\* returns the failure 'Document not found', a submit whose operation lacks
\* the payload or the type returns the failure 'Invalid operation format';
\* both are results with success = false and no version is assigned
C21_RejectedSubmits == []NotFoundReturns /\ [][RejectStep]_vars

\* three calls returned failures: for the document never stored, for the
\* soft-deleted one, and for an operation without payload; nothing is logged
C21_Witness ==
    /\ documents["d1"].is_deleted
    /\ txn["c1"].stage = "returned" /\ txn["c1"].document_id = "d1"
    /\ txn["c1"].result.error = "Document not found"
    /\ txn["c2"].stage = "returned"
    /\ txn["c2"].operation_data = OpNoPayload
    /\ txn["c2"].result.error = "Invalid operation format"
    /\ opLog = {}
    /\ \A d \in DocIds : documents[d].current_version = INITIAL_VERSION


Cancelled(c) == conn[c].status = "cancelled"

\* every step either leaves log and counter of a document alone or appends
\* one row and moves the counter to that row's version; no row is ever
\* removed and no counter ever goes back
CommitsWhole ==
    \A d \in DocIds :
        LET before == {r \in opLog : r.document_id = d}
            after == {r \in opLog' : r.document_id = d}
        IN  /\ before \subseteq after
            /\ documents'[d].current_version >= documents[d].current_version
            /\ \/ after = before /\ documents'[d].current_version = documents[d].current_version
               \/ \E r \in after \ before :
                     /\ after = before \cup {r}
                     /\ r.version = documents[d].current_version + 1
                     /\ documents'[d].current_version = r.version

\* the step that cancels a task touches neither the database nor the call in
\* flight, and the call of a cancelled task that holds the row still leaves
\* the section, with its row and version committed unless the database failed
CancelKeepsCall ==
    \A c \in Channels :
        /\ (~Cancelled(c) /\ conn'[c].status = "cancelled") =>
              (txn' = txn /\ rowLock' = rowLock /\ opLog' = opLog /\ documents' = documents)
        /\ (Cancelled(c) /\ txn[c].stage = "locked" /\ txn'[c].stage = "returned") =>
              /\ rowLock'[txn[c].document_id] = None
              /\ txn'[c].result.success =>
                    /\ documents'[txn[c].document_id].current_version = txn[c].current_version + 1
                    /\ \E r \in opLog' \ opLog : r.version = txn[c].current_version + 1

\* a cancelled task holds the row only while its call is in the section
NoOrphanLock ==
    \A d \in DocIds :
        rowLock[d] # None => txn[rowLock[d]].stage = "locked"

\* C22: when the submitter's task is cancelled after its submit entered the
\* locked section, the submit commits whole (row appended and counter
\* advanced in one step) or not at all, no commit is undone, and the submits
\* of other sessions continue from the resulting version
C22_CancelledSubmitAtomic ==
    /\ [](VersionsGapFree /\ NoOrphanLock)
    /\ [][CommitsWhole /\ CancelKeepsCall]_vars

\* c1's task was cancelled while its call held the row; the call committed
\* version 2 and was never acknowledged, c2's later submit was acknowledged 3
C22_Witness ==
    /\ Cancelled("c1")
    /\ txn["c1"].stage = "returned" /\ txn["c1"].result.success
    /\ txn["c1"].result.version = INITIAL_VERSION + 1
    /\ Acks("c1") = {}
    /\ \E i \in Acks("c2") : outbox["c2"][i].version = INITIAL_VERSION + 2
    /\ documents["d1"].current_version = INITIAL_VERSION + 2


\* what a compaction run on d is said to do
CompactsTo(d) ==
    LET rows == {r \in opLog : r.document_id = d}
        n == Cardinality(rows)
        cv == documents[d].current_version
    IN  /\ documents' = documents
        /\ ~compacted'.raised
        /\ IF FoundDocument(d) /\ n > COMPRESS_THRESHOLD
             THEN /\ compacted'.returned = n - COMPRESS_KEEP
                  /\ opLog' = (opLog \ rows) \cup {r \in rows : r.version > cv - COMPRESS_KEEP}
             ELSE /\ compacted'.returned = 0
                  /\ opLog' = opLog

\* C23: a compaction run on a document with more than 1000 logged operations
\* leaves exactly the 500 with the highest versions and returns the number
\* deleted; with 1000 or fewer, or for a document that does not exist, it
\* returns 0 and changes nothing; current_version is never changed
C23_CompactionKeepsWindow ==
    [][\A d \in DocIds : compress_operation_logs(d) => CompactsTo(d)]_vars

\* the sessions the filter of the cleanup task selects at the current instant
Stale(c) ==
    /\ sessionRows[c].exists
    /\ sessionRows[c].is_active
    /\ now - sessionRows[c].last_activity > SESSION_EXPIRY

CleansExactly ==
    /\ \A c \in Channels :
          sessionRows'[c] = IF Stale(c) THEN [sessionRows[c] EXCEPT !.is_active = FALSE]
                                        ELSE sessionRows[c]
    /\ expired_count' = Cardinality({c \in Channels : Stale(c)})

\* C24: a run of cleanup_expired_sessions marks inactive exactly the sessions
\* that are active and whose last_activity is more than five minutes old,
\* returns their number, and leaves every other session as it was
C24_CleanupExpired == [][cleanup_expired_sessions => CleansExactly]_vars

\* a run has expired one session and kept an active one that was exactly five
\* minutes old, next to a session that was inactive before
C24_Witness ==
    /\ expired_count = 1
    /\ \E c \in Channels :
          /\ sessionRows[c].exists /\ sessionRows[c].is_active
          /\ now - sessionRows[c].last_activity = SESSION_EXPIRY
    /\ \E c \in Channels :
          /\ sessionRows[c].exists /\ ~sessionRows[c].is_active
          /\ now - sessionRows[c].last_activity > SESSION_EXPIRY

\* the log rows written for the message id m
RowsOf(m) == {r \in opLog : r.operation_id[3] = m}
\* where in the frames sent to c the acknowledgements of message id m are
AckAt(c, m) ==
    {i \in 1 .. Len(outbox[c]) :
        outbox[c][i].type = "operation.ack" /\ outbox[c][i].id = m}

\* C25: a session that sends operation m1 before m2 has m1 handled to its end
\* before m2 is taken up: when both commit, m1's version is the lower one and
\* m1's acknowledgement is sent before m2's
C25_ArrivalOrder ==
    /\ \A ra \in RowsOf(FirstId), rb \in RowsOf(SecondId) : ra.version < rb.version
    /\ \A i \in AckAt("c1", FirstId), j \in AckAt("c1", SecondId) :
          i < j /\ outbox["c1"][i].version < outbox["c1"][j].version
    /\ txn["c1"].message_id = SecondId =>
          \A ra \in RowsOf(FirstId) :
             \E i \in AckAt("c1", FirstId) : outbox["c1"][i].version = ra.version

\* both operations of c1 are acknowledged and the other session's operation
\* got the version between them
C25_Witness ==
    /\ AckAt("c1", FirstId) # {} /\ AckAt("c1", SecondId) # {}
    /\ \E ra \in RowsOf(FirstId), rb \in RowsOf(SecondId), r \in RowsOf(NoId) :
          /\ r.document_id = ra.document_id
          /\ ra.version < r.version /\ r.version < rb.version

\* the versions a session was told of: by an acknowledgement, by a relay
ToldVersions(c) ==
    {outbox[c][i].version : i \in Acks(c)} \cup
    {outbox[c][i].data.version : i \in Relayed(c)}

\* C26: whenever a session has received an acknowledgement or a relayed
\* operation with version v, a row with version v is in the log of its
\* document and the document's current_version is at least v
C26_ToldAfterCommit ==
    \A c \in Channels : \A v \in ToldVersions(c) :
        /\ \E r \in opLog : r.document_id = DocOf(c) /\ r.version = v
        /\ documents[DocOf(c)].current_version >= v

\* one session holds the acknowledgement of an operation and another session
\* the relayed copy of it, while a submit that failed left no version behind
C26_Witness ==
    /\ \E c \in Channels : Acks(c) # {}
    /\ \E c \in Channels : Relayed(c) # {}
    /\ \E c \in Channels : GotError(c)

\* c is sent one more frame, an error, and nothing else happens to any
\* session: no event is queued and no other client is sent anything
ErrorToSenderAlone(c) ==
    /\ Len(outbox'[c]) = Len(outbox[c]) + 1
    /\ SubSeq(outbox'[c], 1, Len(outbox[c])) = outbox[c]
    /\ outbox'[c][Len(outbox'[c])].type = "error"
    /\ inbox' = inbox
    /\ \A x \in Channels \ {c} : outbox'[x] = outbox[x]

\* the requests of c that fail: a submit that returned a failure, a frame
\* without its operation or block_id, a lock request that lost
FailedRequest(c) ==
    \/ finish_operation(c) /\ ~txn[c].result.success
    \/ handle_operation(c, NoId, NoOperation)
    \/ handle_block_lock(c, NoId, None)
    \/ \E b \in Blocks :
          /\ handle_block_lock(c, NoId, b)
          /\ ~lock_acquired(blockLock, DocOf(c), b, UserOf(c))

\* C27: a failed submit, a lock request that loses and a frame with a missing
\* field are answered with an error to the sender alone; nothing about them is
\* queued for or sent to any other session
C27_FailureToSenderOnly ==
    [][\A c \in Channels : FailedRequest(c) => ErrorToSenderAlone(c)]_vars

\* a session lost a lock request and a submit of a session failed, next to
\* other sessions that are open
C27_Witness ==
    /\ \E c \in Channels :
          \E i \in DOMAIN outbox[c] : outbox[c][i] = ErrorFrame("Block is already locked")
    /\ \E c \in Channels :
          \E i \in DOMAIN outbox[c] : outbox[c][i] = ErrorFrame("Invalid operation format")
    /\ \A c \in Senders : Open(c)

\* a compaction run did not end with nothing to delete
RanOverThreshold == compacted # NothingCompacted

\* C28: after a compaction run over the threshold, the operations a resync
\* from the initial version (older than the retained window) returns are only
\* the COMPRESS_KEEP retained ones
C28_ResyncAfterCompaction ==
    RanOverThreshold =>
        Cardinality(missing_rows("d1", VersionVector(INITIAL_VERSION))) = COMPRESS_KEEP

\* C29: a cached read of a document returns a view whose current_version is
\* not lower than the version committed to the document before the read began
C29_CachedReadFresh ==
    [][\A d \in DocIds :
          (get_document_with_blocks(d) /\ reader'.hit)
          => reader'.returned.current_version >= documents[d].current_version]_vars

\* C30: the relayed operations a session has received have increasing
\* versions, in the order it received them
C30_RelayInVersionOrder ==
    \A c \in Channels : \A i, j \in Relayed(c) :
        i < j => outbox[c][i].data.version < outbox[c][j].data.version

\* C31: a version is assigned to a document only for an author who holds
\* edit permission on it
C31_CommitNeedsEdit ==
    [][\A d \in DocIds :
          documents'[d].current_version # documents[d].current_version
          => <<documents'[d].last_edited_by, d>> \in EditGrants]_vars

\* nothing is in flight: no submit under way, no event waiting for a consumer
Settled == \A c \in Channels : txn[c].stage = "none" /\ inbox[c] = <<>>
\* the operation ids in the initial sync c was sent
InitialUpdates(c) ==
    UNION {{outbox[c][i].document_state.updates[k].operation_id :
               k \in DOMAIN outbox[c][i].document_state.updates} :
           i \in {j \in DOMAIN outbox[c] : outbox[c][j].type = "connection.established"}}
RelayedTo(c) == {outbox[c][i].data.operation_id : i \in Relayed(c)}

\* C32: once nothing is in flight, a session that completed the handshake
\* has every operation another user committed on its document, in its
\* initial sync or as a relayed operation
C32_NoUpdateLost ==
    Settled =>
        \A c \in JoinSessions :
            Open(c) =>
                \A r \in opLog :
                    (r.document_id = DocOf(c) /\ r.user_id # UserOf(c))
                    => r.operation_id \in InitialUpdates(c) \cup RelayedTo(c)

\* C33: while its marker lasts, a message id has at most one committed
\* operation, whichever connections its copies arrive on
C33_OneCommitPerId ==
    \A m \in MsgIds : Cardinality(RowsOf(m)) <= 1

\* every handling of message id m so far has ended without a commit
FailedSoFar(m) ==
    /\ m \in idem
    /\ RowsOf(m) = {}
    /\ \A x \in Channels : txn[x].message_id # m

\* C34: a copy of an operation message whose earlier handling failed is
\* handled again, not dropped as a duplicate
C34_RetryHandledAgain ==
    [][\A c \in RetrySessions, m \in RaceIds :
          (FailedSoFar(m) /\ handle_operation(c, m, OpValid))
          => txn'[c].stage = "waiting"]_vars

\* C35: a block.unlock from a session whose user does not own the lock, or for
\* a block nobody holds, changes no lock and queues no event for any session
C35_UnlockNotifiesOnRelease ==
    [][\A c \in LockSessions, b \in Blocks :
          (/\ handle_block_unlock(c, NoId, b)
           /\ blockLock[<<DocOf(c), b>>].owner # UserOf(c))
          => (blockLock' = blockLock /\ inbox' = inbox)]_vars

\* x is another live session of the user of c on the document of c
SiblingSession(c, x) ==
    /\ x # c
    /\ Open(x) /\ sessionRows[x].exists /\ sessionRows[x].is_active
    /\ DocOf(x) = DocOf(c) /\ UserOf(x) = UserOf(c)

\* C36: when one of two live sessions of a user on a document disconnects,
\* the other session stays active and the user stays in the document's
\* presence set
C36_SiblingSurvives ==
    [][\A c, x \in Channels :
          (Open(c) /\ SiblingSession(c, x) /\ disconnect(c))
          => (/\ sessionRows'[x].is_active
              /\ UserOf(x) \in presenceSet'[DocOf(x)].members)]_vars

\* the time since the last frame of the session of c refreshed its activity
SinceLastFrame(c) == now - presenceHash[<<DocOf(c), UserOf(c)>>].last_activity

\* C37: a run of cleanup_expired_sessions never marks inactive the session of an
\* open connection whose client sent a frame less than five minutes ago
C37_CleanupSparesActive ==
    [][\A c \in IdleSessions :
          (/\ cleanup_expired_sessions
           /\ Open(c) /\ sessionRows[c].exists /\ sessionRows[c].is_active
           /\ presenceHash[<<DocOf(c), UserOf(c)>>].exists
           /\ SinceLastFrame(c) < SESSION_EXPIRY)
          => sessionRows'[c].is_active]_vars

\* C38: every entry get_active_users returns carries the display name and the
\* color that the user's join stored; no entry made only of the fields a refresh
\* writes is listed
C38_ListedEntriesComplete ==
    \A d \in DocIds : \A e \in get_active_users(d) :
        e.display_name = DisplayName(e.user_id) /\ e.color \in Colors

====
